---- MODULE Spec2Model ----
(***************************************************************************)
(* Model of the IOC extraction, type detection and threat scoring code of  *)
(* the open-soc agents (orchestration_coordinator.py,                      *)
(* threat_hunting_specialist.py, virustotal_analyzer.py).                  *)
(*                                                                         *)
(* Python str values are TLA+ strings; a character is a string of length   *)
(* one.  Every tool function is one action; the inputs of a call are drawn *)
(* in the initial state of the specification that exercises it.            *)
(***************************************************************************)
EXTENDS Integers, Sequences, FiniteSets, TLC

VARIABLES
    done,                   \* names of the functions that have returned
    ioc_value,              \* argument of the two _detect_ioc_type functions
    vt_type,                \* result of virustotal_analyzer._detect_ioc_type
    tf_type,                \* result of ThreatFoxClient._detect_ioc_type
    analysis,               \* argument of _assess_threat_level (a dict)
    threat_level,           \* result of _assess_threat_level
    ioc_analysis,           \* threat_intelligence["ioc_analysis"] given to the report
    report_level,           \* threat_level computed by _generate_offline_hunting_report
    text,                   \* alert_data / text scanned by the two extractors
    max_iocs_per_analysis,  \* OrchestrationCoordinatorConfig.max_iocs_per_analysis
    unique_iocs,            \* result of _extract_iocs_from_alert
    cleaned_iocs,           \* result of _extract_iocs_from_text
    incident_data,          \* hunt_threats argument
    ioc_list,               \* hunt_threats argument (comma separated)
    provided_iocs,          \* hunt_threats local
    extracted_iocs,         \* hunt_threats local
    all_iocs,               \* hunt_threats local: list(set(provided + extracted))
    recommendations,        \* result of _generate_recommendations
    offline_mode,           \* config.offline_mode of each client's tool
    api_key,                \* self.api_key of each client
    now,                    \* time.time(), in seconds
    last_request_time,      \* self.last_request_time of each client
    http_log,               \* requests sent and rate-limit sleeps made so far
    vt_analysis,            \* analysis obtained by analyze_ioc_with_virustotal
    tf_queue,               \* iocs[:10] that hunt_threats has still to search
    tf_results,             \* ioc_result of each search_ioc call so far
    frames,                 \* locals of each concurrent invocation
    vt_budget,              \* calls of analyze_ioc_with_virustotal still to come
    simulated_note,         \* whether the VirusTotal report ends with the simulated-data note
    threat_intelligence,    \* hunt_threats local: ioc_analysis and raw_api_responses
    tf_service,             \* answers that the ThreatFox service gives, in turn
    asset_info,             \* coordinate_orchestration_analysis argument
    enable_script_generation, \* OrchestrationCoordinatorConfig.enable_script_generation
    orchestration_results,  \* document returned by coordinate_orchestration_analysis
    hello_config,           \* HelloTestAgentConfig: offline_mode, max_retries
    hello,                  \* locals and result of test_ai_connectivity
    orchestration_data,     \* generate_takedown_procedures argument
    takedown_type,          \* generate_takedown_procedures argument
    auto_execution,         \* TakedownSpecialistConfig.auto_execution
    takedown_results        \* document returned by generate_takedown_procedures

detectVars == <<ioc_value, vt_type, tf_type>>
scoreVars == <<analysis, threat_level>>
reportVars == <<ioc_analysis, report_level>>
extractVars == <<text, max_iocs_per_analysis, unique_iocs, cleaned_iocs>>
huntVars == <<incident_data, ioc_list, provided_iocs, extracted_iocs, all_iocs>>
recommendVars == <<recommendations>>
clientVars ==
    <<offline_mode, api_key, now, last_request_time, http_log, vt_analysis,
      tf_queue, tf_results>>
concVars == <<frames>>
rateVars == <<vt_budget, simulated_note>>
queryVars == <<threat_intelligence, tf_service>>
orchVars == <<asset_info, enable_script_generation, orchestration_results>>
helloVars == <<hello_config, hello>>
takedownVars == <<orchestration_data, takedown_type, auto_execution, takedown_results>>
restVars == <<rateVars, queryVars, orchVars, helloVars, takedownVars>>
vars ==
    <<done, detectVars, scoreVars, reportVars, extractVars, huntVars,
      recommendVars, clientVars, concVars, restVars>>

\* Value of a result variable whose function has not returned (Python: unbound).
NotRun == "<not run>"

\* The empty dict {}.
NoDict == [k \in {} |-> 0]

(***************************************************************************)
(* Bounds of the model.                                                    *)
(***************************************************************************)
\* Lengths around each hash length that the detector inputs take.
Slack == 1
\* Longest "short" generated detector input.
MaxShort == 3

(***************************************************************************)
(* Python str helpers.                                                     *)
(***************************************************************************)
Ch(s, i) == SubSeq(s, i, i)

Max2(a, b) == IF a >= b THEN a ELSE b
Min2(a, b) == IF a <= b THEN a ELSE b

Digits == {"0", "1", "2", "3", "4", "5", "6", "7", "8", "9"}
LowerAlpha == {"a", "b", "c", "d", "e", "f", "g", "h", "i", "j", "k", "l", "m",
               "n", "o", "p", "q", "r", "s", "t", "u", "v", "w", "x", "y", "z"}
UpperAlpha == {"A", "B", "C", "D", "E", "F", "G", "H", "I", "J", "K", "L", "M",
               "N", "O", "P", "Q", "R", "S", "T", "U", "V", "W", "X", "Y", "Z"}
Alpha == LowerAlpha \cup UpperAlpha
Alnum == Alpha \cup Digits
\* '0123456789abcdefABCDEF' and the regex class [a-fA-F0-9]
HexChars == Digits \cup {"a", "b", "c", "d", "e", "f", "A", "B", "C", "D", "E", "F"}
\* the regex class \w (ASCII part)
WordChars == Alnum \cup {"_"}
\* str.strip() and the regex class \s (ASCII part expressible in a TLA+ string)
Whitespace == {" ", "\t", "\n", "\r"}

\* s.startswith(p)
StartsWith(s, p) == Len(s) >= Len(p) /\ SubSeq(s, 1, Len(p)) = p

\* s.endswith(p)
EndsWith(s, p) == Len(s) >= Len(p) /\ SubSeq(s, Len(s) - Len(p) + 1, Len(s)) = p

\* p in s, for a non-empty p
Contains(s, p) == \E i \in 1..(Len(s) - Len(p) + 1) : SubSeq(s, i, i + Len(p) - 1) = p

\* all(c in cs for c in s)
AllIn(s, cs) == \A i \in 1..Len(s) : Ch(s, i) \in cs

\* s.strip()
RECURSIVE LStrip(_)
LStrip(s) == IF s /= "" /\ Head(s) \in Whitespace THEN LStrip(Tail(s)) ELSE s

RECURSIVE RStrip(_)
RStrip(s) ==
    IF s /= "" /\ Ch(s, Len(s)) \in Whitespace THEN RStrip(SubSeq(s, 1, Len(s) - 1)) ELSE s

Strip(s) == RStrip(LStrip(s))

\* s.split(sep) for a one-character sep: the list of the pieces between the separators
RECURSIVE SplitFrom(_, _, _, _)
SplitFrom(s, sep, start, i) ==
    IF i > Len(s) THEN <<SubSeq(s, start, Len(s))>>
    ELSE IF Ch(s, i) = sep
         THEN <<SubSeq(s, start, i - 1)>> \o SplitFrom(s, sep, i + 1, i + 1)
         ELSE SplitFrom(s, sep, start, i + 1)

Split(s, sep) == SplitFrom(s, sep, 1, 1)

\* int(s, 10) for a string of one to three ASCII digits
DigitVal(c) == CHOOSE d \in 0..9 : Ch("0123456789", d + 1) = c

RECURSIVE ToInt(_)
ToInt(s) == IF s = "" THEN 0 ELSE 10 * ToInt(SubSeq(s, 1, Len(s) - 1)) + DigitVal(Ch(s, Len(s)))

(***************************************************************************)
(* virustotal_analyzer._detect_ioc_type                                    *)
(***************************************************************************)
\* one alternative group of ip_pattern: 25[0-5] | 2[0-4][0-9] | [01]?[0-9][0-9]?
VTOctet(o) ==
    /\ Len(o) \in 1..3
    /\ AllIn(o, Digits)
    /\ \/ Len(o) <= 2
       \/ Ch(o, 1) \in {"0", "1"}
       \/ Ch(o, 1) = "2" /\ Ch(o, 2) \in {"0", "1", "2", "3", "4"}
       \/ SubSeq(o, 1, 2) = "25" /\ Ch(o, 3) \in {"0", "1", "2", "3", "4", "5"}

\* re.match(ip_pattern, value): anchored at both ends, so the value is exactly
\* four octet groups separated by dots.
VTIpMatch(value) ==
    LET parts == Split(value, ".")
    IN  Len(parts) = 4 /\ \A i \in 1..4 : VTOctet(parts[i])

HashLengths == {32, 40, 64}

VT_detect_ioc_type_LowerHex(value0) ==
    LET value == Strip(value0)
    IN  IF Len(value) \in HashLengths /\ AllIn(value, HexChars \ UpperAlpha) THEN "hash"
        ELSE IF \/ StartsWith(value, "http://")
                \/ StartsWith(value, "https://")
                \/ StartsWith(value, "ftp://") THEN "url"
        ELSE IF VTIpMatch(value) THEN "ip"
        ELSE "domain"

VT_detect_ioc_type(value0) ==
    LET value == Strip(value0)
    IN  IF Len(value) \in HashLengths /\ AllIn(value, HexChars) THEN "hash"
        ELSE IF \/ StartsWith(value, "http://")
                \/ StartsWith(value, "https://")
                \/ StartsWith(value, "ftp://") THEN "url"
        ELSE IF VTIpMatch(value) THEN "ip"
        ELSE "domain"

(***************************************************************************)
(* ThreatFoxClient._detect_ioc_type                                        *)
(***************************************************************************)
\* ipaddress.IPv4Address._parse_octet: ASCII digits, at most three, no leading
\* zero unless the octet is "0", value at most 255.
IPv4Octet(o) ==
    /\ Len(o) \in 1..3
    /\ AllIn(o, Digits)
    /\ (o = "0" \/ Ch(o, 1) /= "0")
    /\ ToInt(o) <= 255

\* ipaddress.ip_address(address) for a str without ':' : the IPv6 parse always
\* fails (fewer than three ':'-separated parts), so the call returns exactly for
\* a dotted quad and raises ValueError otherwise.
ip_address(address) ==
    LET octets == Split(address, ".")
    IN  IF /\ Len(octets) = 4
           /\ \A i \in 1..4 : IPv4Octet(octets[i])
        THEN "IPv4Address"
        ELSE "ValueError"

TF_detect_ioc_type_NoExcept(value) ==
    IF ip_address(Split(value, ":")[1]) /= "ValueError"
    THEN (IF Contains(value, ":") THEN "ip:port" ELSE "ip")
    ELSE "ValueError"

\* The ValueError of ip_address is caught (lines 370-374) and the chain of tests
\* goes on.
TF_detect_ioc_type(value) ==
    IF ip_address(Split(value, ":")[1]) /= "ValueError"
    THEN (IF Contains(value, ":") THEN "ip:port" ELSE "ip")
    ELSE IF StartsWith(value, "http://") \/ StartsWith(value, "https://") THEN "url"
    ELSE IF Contains(value, ".") /\ ~(StartsWith(value, "http") \/ StartsWith(value, "ftp"))
         THEN "domain"
    ELSE IF Len(value) \in HashLengths
         THEN (IF Len(value) = 64 THEN "sha256" ELSE IF Len(value) = 32 THEN "md5" ELSE "sha1")
    ELSE "unknown"

(***************************************************************************)
(* Inputs of the detectors.                                                *)
(***************************************************************************)
\* c1 c2 c1 c2 ... of length n
RECURSIVE Alternate(_, _, _)
Alternate(c1, c2, n) == IF n <= 0 THEN "" ELSE c1 \o Alternate(c2, c1, n - 1)

DetectLengths ==
    (0..MaxShort) \cup {h + d : h \in HashLengths, d \in (0 - Slack)..Slack}

DetectPrefixes == {"", "ftp://", "http://", "https://", " ", "x."}

FillPairs == {<<"a", "7">>, <<"F", "0">>, <<"9", "9">>, <<"g", "a">>, <<"-", "z">>}

GeneratedValues ==
    {p \o Alternate(f[1], f[2], n - Len(p)) :
        p \in DetectPrefixes, f \in FillPairs, n \in DetectLengths}

SampleValues ==
    {"8.8.8.8", "https://evil.test/a", "not-an-ioc", "", " ", "ftp://a.b/c",
     "1.2.3.4:80", "256.1.1.1", "01.2.3.4", "1.2.3.4 ", "1.2.3", "1.2.3.4.5",
     "evil.xyz", "http", "httpx.y", "255.255.255.255", "1.2.3.4:", ":1.2.3.4",
     "\t5f4dcc3b5aa765d61d8327deb882cf99\n", "5f4dcc3b5aa765d61d8327deb882cf99"}

DetectValues == GeneratedValues \cup SampleValues

(***************************************************************************)
(* Specification of the type detectors.                                    *)
(***************************************************************************)
IdleDetect == ioc_value = "" /\ vt_type = NotRun /\ tf_type = NotRun
IdleScore == analysis = NoDict /\ threat_level = NotRun
IdleReport == ioc_analysis = <<>> /\ report_level = NotRun
IdleExtract ==
    /\ text = ""
    /\ max_iocs_per_analysis = 0
    /\ unique_iocs = NotRun
    /\ cleaned_iocs = NotRun
IdleHunt ==
    /\ incident_data = ""
    /\ ioc_list = ""
    /\ provided_iocs = NotRun
    /\ extracted_iocs = NotRun
    /\ all_iocs = NotRun
IdleRecommend == recommendations = NotRun
IdleClient ==
    /\ offline_mode = NoDict
    /\ api_key = NoDict
    /\ now = 0
    /\ last_request_time = NoDict
    /\ http_log = <<>>
    /\ vt_analysis = NotRun
    /\ tf_queue = <<>>
    /\ tf_results = <<>>
IdleConcurrent == frames = <<>>
IdleRate == vt_budget = 0 /\ simulated_note = NotRun
IdleQuery == threat_intelligence = NoDict /\ tf_service = <<>>
IdleOrch ==
    /\ asset_info = ""
    /\ enable_script_generation = TRUE
    /\ orchestration_results = NotRun
IdleHello == hello_config = NoDict /\ hello = NoDict
IdleTakedown ==
    /\ orchestration_data = ""
    /\ takedown_type = ""
    /\ auto_execution = FALSE
    /\ takedown_results = NotRun
IdleRest == IdleRate /\ IdleQuery /\ IdleOrch /\ IdleHello /\ IdleTakedown

InitDetect ==
    /\ done = {}
    /\ IdleRest
    /\ IdleRecommend /\ IdleClient /\ IdleConcurrent
    /\ ioc_value \in DetectValues
    /\ vt_type = NotRun
    /\ tf_type = NotRun
    /\ IdleScore /\ IdleReport /\ IdleExtract /\ IdleHunt

DetectVT ==
    /\ "vt_detect" \notin done
    /\ vt_type' = VT_detect_ioc_type(ioc_value)
    /\ done' = done \cup {"vt_detect"}
    /\ UNCHANGED <<ioc_value, tf_type, scoreVars, reportVars, extractVars, huntVars,
                   recommendVars, clientVars, concVars, restVars>>

DetectTF ==
    /\ "tf_detect" \notin done
    /\ tf_type' = TF_detect_ioc_type(ioc_value)
    /\ done' = done \cup {"tf_detect"}
    /\ UNCHANGED <<ioc_value, vt_type, scoreVars, reportVars, extractVars, huntVars,
                   recommendVars, clientVars, concVars, restVars>>

NextDetect == DetectVT \/ DetectTF

SpecDetect == InitDetect /\ [][NextDetect]_vars

(***************************************************************************)
(* virustotal_analyzer._assess_threat_level                                *)
(***************************************************************************)
\* Largest engine count and detection count of an analysis dict.
MaxEngines == 70

\* dict.get(key, default)
Get(d, key, default) == IF key \in DOMAIN d THEN d[key] ELSE default

PercentAtLeast_AtMost(malicious, total, k) == 100 * malicious <= k * total

\* (malicious / total) * 100 >= k for total > 0; the float expression and the
\* exact comparison 100 * malicious >= k * total select the same branch for
\* every pair of counts the model draws (the quotients at the band edges,
\* 7/10, 3/10 and 1/10, round to 70.0, 30.0 and 10.0).
PercentAtLeast(malicious, total, k) == 100 * malicious >= k * total

ThreatBand_Strict70(malicious, total) ==
    IF total = 0 THEN "ZeroDivisionError"
    ELSE IF 100 * malicious > 70 * total THEN "Critical"
    ELSE IF PercentAtLeast(malicious, total, 30) THEN "High"
    ELSE IF PercentAtLeast(malicious, total, 10) THEN "Medium"
    ELSE IF malicious > 0 THEN "Low"
    ELSE "Clean"

\* lines 287-298: the division and the band cascade; dividing by zero raises.
ThreatBand(malicious, total) ==
    IF total = 0 THEN "ZeroDivisionError"
    ELSE IF PercentAtLeast(malicious, total, 70) THEN "Critical"
    ELSE IF PercentAtLeast(malicious, total, 30) THEN "High"
    ELSE IF PercentAtLeast(malicious, total, 10) THEN "Medium"
    ELSE IF malicious > 0 THEN "Low"
    ELSE "Clean"

assess_threat_level_NoGuard(a) ==
    ThreatBand(Get(a, "malicious", 0), Get(a, "total_engines", 70))

assess_threat_level(a) ==
    LET malicious == Get(a, "malicious", 0)
        total == Get(a, "total_engines", 70)
    IN  IF total = 0 THEN "Unknown" ELSE ThreatBand(malicious, total)

AnalysisDicts ==
    {[malicious |-> m, total_engines |-> t] : m \in 0..MaxEngines, t \in 0..MaxEngines}
    \cup {[malicious |-> m] : m \in 0..MaxEngines}
    \cup {[total_engines |-> t] : t \in 0..MaxEngines}
    \cup {NoDict}

InitScore ==
    /\ done = {}
    /\ IdleRest
    /\ IdleRecommend /\ IdleClient /\ IdleConcurrent
    /\ analysis \in AnalysisDicts
    /\ threat_level = NotRun
    /\ IdleDetect /\ IdleReport /\ IdleExtract /\ IdleHunt

AssessThreatLevel ==
    /\ "assess" \notin done
    /\ threat_level' = assess_threat_level(analysis)
    /\ done' = done \cup {"assess"}
    /\ UNCHANGED <<analysis, detectVars, reportVars, extractVars, huntVars,
                   recommendVars, clientVars, concVars, restVars>>

NextScore == AssessThreatLevel

SpecScore == InitScore /\ [][NextScore]_vars

(***************************************************************************)
(* threat_hunting_specialist._generate_offline_hunting_report              *)
(* (the threat score and threat level of the report, lines 76-96)          *)
(***************************************************************************)
\* Longest ioc_analysis list given to the report.
MaxAnalysed == 4
\* Largest "matches" count of one ioc_analysis entry.
MaxMatches == 2

\* sum(1 for ioc in ioc_analysis if ioc["matches"] > 0)
MaliciousIocs(entries) == Cardinality({i \in 1..Len(entries) : entries[i].matches > 0})

\* lines 89-96, for a threat_score of malicious_iocs / total_iocs * 100
ReportBand(malicious_iocs, total_iocs) ==
    IF total_iocs = 0 THEN "ZeroDivisionError"
    ELSE IF PercentAtLeast(malicious_iocs, total_iocs, 75) THEN "CRITICAL"
    ELSE IF PercentAtLeast(malicious_iocs, total_iocs, 50) THEN "HIGH"
    ELSE IF PercentAtLeast(malicious_iocs, total_iocs, 25) THEN "MEDIUM"
    ELSE "LOW"

report_threat_level_NoGuard(entries) == ReportBand(MaliciousIocs(entries), Len(entries))

\* threat_score is 0 for an empty list, which falls through to the else branch.
report_threat_level(entries) ==
    LET total_iocs == Len(entries)
        malicious_iocs == MaliciousIocs(entries)
    IN  IF total_iocs > 0 THEN ReportBand(malicious_iocs, total_iocs) ELSE "LOW"

RECURSIVE SeqsUpTo(_, _)
SeqsUpTo(S, n) ==
    IF n = 0 THEN {<<>>}
    ELSE LET shorter == SeqsUpTo(S, n - 1)
         IN  shorter \cup {Append(q, x) : q \in shorter, x \in S}

AnalysisEntries == {[matches |-> k] : k \in 0..MaxMatches}

InitReport ==
    /\ done = {}
    /\ IdleRest
    /\ IdleRecommend /\ IdleClient /\ IdleConcurrent
    /\ ioc_analysis \in SeqsUpTo(AnalysisEntries, MaxAnalysed)
    /\ report_level = NotRun
    /\ IdleDetect /\ IdleScore /\ IdleExtract /\ IdleHunt

GenerateReport ==
    /\ "report" \notin done
    /\ report_level' = report_threat_level(ioc_analysis)
    /\ done' = done \cup {"report"}
    /\ UNCHANGED <<ioc_analysis, detectVars, scoreVars, extractVars, huntVars,
                   recommendVars, clientVars, concVars, restVars>>

NextReport == GenerateReport

SpecReport == InitReport /\ [][NextReport]_vars

(***************************************************************************)
(* The regular expressions of the two extractors, as re.findall runs them. *)
(* A matcher gives the index of the last character of the match that       *)
(* starts at index i, or 0 when the pattern does not match there.          *)
(***************************************************************************)
ChAt(s, i) == IF i \in 1..Len(s) THEN Ch(s, i) ELSE ""

\* \b before index i (i = Len(s) + 1: at the end of the string)
WordBoundary(s, i) == (ChAt(s, i - 1) \in WordChars) /= (ChAt(s, i) \in WordChars)

\* index of the last character of the longest run of characters of cs from i
RECURSIVE RunEnd(_, _, _)
RunEnd(s, i, cs) == IF ChAt(s, i) \in cs THEN RunEnd(s, i + 1, cs) ELSE i - 1

\* [0-9]{1,3} followed by a character that is no digit: the run of digits at i
DigitGroupEnd(s, i) ==
    LET e == RunEnd(s, i, Digits) IN IF e - i + 1 \in 1..3 THEN e ELSE 0

\* [0-9]{1,3}\. : index of the dot
DottedGroupEnd(s, i) ==
    LET e == DigitGroupEnd(s, i) IN IF e > 0 /\ ChAt(s, e + 1) = "." THEN e + 1 ELSE 0

\* ip_pattern = \b(?:[0-9]{1,3}\.){3}[0-9]{1,3}\b
IpEnd(s, i) ==
    IF ~WordBoundary(s, i) THEN 0
    ELSE LET d1 == DottedGroupEnd(s, i)
             d2 == IF d1 > 0 THEN DottedGroupEnd(s, d1 + 1) ELSE 0
             d3 == IF d2 > 0 THEN DottedGroupEnd(s, d2 + 1) ELSE 0
             e == IF d3 > 0 THEN DigitGroupEnd(s, d3 + 1) ELSE 0
         IN  IF e > 0 /\ WordBoundary(s, e + 1) THEN e ELSE 0

\* one label and its dot, [a-zA-Z0-9](?:[a-zA-Z0-9\-]{0,61}[a-zA-Z0-9])?\. :
\* index of the dot
LabelEnd(s, i) ==
    LET e == RunEnd(s, i, Alnum \cup {"-"})
    IN  IF /\ e >= i
           /\ e - i + 1 <= 63
           /\ ChAt(s, i) \in Alnum
           /\ ChAt(s, e) \in Alnum
           /\ ChAt(s, e + 1) = "."
        THEN e + 1 ELSE 0

\* [a-zA-Z]{2,}\b
TldEnd(s, i) ==
    LET e == RunEnd(s, i, Alpha)
    IN  IF e - i + 1 >= 2 /\ WordBoundary(s, e + 1) THEN e ELSE 0

\* the rest of the domain pattern after one label: more labels first (the
\* group is greedy), the top-level domain when that fails
RECURSIVE DomainRest(_, _)
DomainRest(s, i) ==
    LET dot == LabelEnd(s, i)
        more == IF dot > 0 THEN DomainRest(s, dot + 1) ELSE 0
    IN  IF more > 0 THEN more ELSE TldEnd(s, i)

\* domain_pattern =
\*   \b(?:[a-zA-Z0-9](?:[a-zA-Z0-9\-]{0,61}[a-zA-Z0-9])?\.)+[a-zA-Z]{2,}\b
DomainEnd(s, i) ==
    IF ~WordBoundary(s, i) THEN 0
    ELSE LET dot == LabelEnd(s, i) IN IF dot > 0 THEN DomainRest(s, dot + 1) ELSE 0

\* characters excluded by the negated class of url_pattern: whitespace and
\* < > " ' { } | \ ^ [ ] (the class also excludes the backquote, a character
\* that no string of this model contains)
UrlUnsafe == Whitespace \cup {"<", ">", "\"", "'", "{", "}", "|", "\\", "^", "[", "]"}
\* characters that the last class of url_pattern excludes in addition
UrlTrailing == {".", ",", ";", "!", "?"}

\* index of the last character of the longest run of URL characters from i
RECURSIVE RunEndNot(_, _)
RunEndNot(s, i) ==
    IF i <= Len(s) /\ Ch(s, i) \notin UrlUnsafe THEN RunEndNot(s, i + 1) ELSE i - 1

\* the longest prefix i..e of a run of URL characters that ends in a character
\* of the last class and has at least one character before it
RECURSIVE UrlTrim(_, _, _)
UrlTrim(s, first, e) ==
    IF e <= first THEN 0
    ELSE IF ChAt(s, e) \notin UrlTrailing THEN e
    ELSE UrlTrim(s, first, e - 1)

\* url_pattern: http, an optional s, ://, one or more URL characters, and a
\* last URL character that is none of . , ; ! ?
UrlEnd(s, i) ==
    LET first == IF SubSeq(s, i, Min2(Len(s), i + 6)) = "http://" THEN i + 7
                 ELSE IF SubSeq(s, i, Min2(Len(s), i + 7)) = "https://" THEN i + 8
                 ELSE 0
    IN  IF first = 0 \/ first > Len(s) \/ ChAt(s, first) \in UrlUnsafe THEN 0
        ELSE UrlTrim(s, first, RunEndNot(s, first))

\* \b[a-fA-F0-9]{n}\b
HashEnd(s, i, n) ==
    IF /\ WordBoundary(s, i)
       /\ i + n - 1 <= Len(s)
       /\ AllIn(SubSeq(s, i, i + n - 1), HexChars)
       /\ WordBoundary(s, i + n)
    THEN i + n - 1 ELSE 0

MatchEnd(pattern, s, i) ==
    CASE pattern = "ip" -> IpEnd(s, i)
      [] pattern = "domain" -> DomainEnd(s, i)
      [] pattern = "url" -> UrlEnd(s, i)
      [] pattern = "md5" -> HashEnd(s, i, 32)
      [] pattern = "sha1" -> HashEnd(s, i, 40)
      [] pattern = "sha256" -> HashEnd(s, i, 64)

\* re.findall(pattern, s): the non-overlapping matches, scanning from the left.
\* starts holds the indices where the pattern matches; the scan takes the first
\* of them at or after i and resumes behind the end of that match.
RECURSIVE FindAllFrom(_, _, _, _)
FindAllFrom(pattern, s, starts, i) ==
    LET ahead == {j \in starts : j >= i}
    IN  IF ahead = {} THEN <<>>
        ELSE LET b == CHOOSE j \in ahead : \A k \in ahead : j <= k
                 e == MatchEnd(pattern, s, b)
             IN  <<SubSeq(s, b, e)>> \o FindAllFrom(pattern, s, starts, e + 1)

FindAll(pattern, s) ==
    FindAllFrom(pattern, s, {j \in 1..Len(s) : MatchEnd(pattern, s, j) > 0}, 1)

(***************************************************************************)
(* orchestration_coordinator._extract_iocs_from_alert                      *)
(***************************************************************************)
\* str.lower() (ASCII letters)
LowerCh(c) ==
    IF c \in UpperAlpha
    THEN LET k == CHOOSE j \in 1..26 : Ch("ABCDEFGHIJKLMNOPQRSTUVWXYZ", j) = c
         IN  Ch("abcdefghijklmnopqrstuvwxyz", k)
    ELSE c

RECURSIVE Lower(_)
Lower(s) == IF s = "" THEN "" ELSE LowerCh(Head(s)) \o Lower(Tail(s))

\* s.endswith((p1, p2, ...))
EndsWithAny(s, suffixes) == \E p \in suffixes : EndsWith(s, p)

Range(q) == {q[i] : i \in 1..Len(q)}

AlertDomainKept_NoKeyword(domain) ==
    ~EndsWithAny(domain, {".local", ".internal", ".com", ".org", ".net"})

\* line 51: the domains that _extract_iocs_from_alert keeps
AlertDomainKept(domain) ==
    \/ ~EndsWithAny(domain, {".local", ".internal", ".com", ".org", ".net"})
    \/ Contains(Lower(domain), "suspicious")

\* iocs.append({"value": v, "type": t, "source": "alert_data"}) for each match
Tagged(values, type) ==
    [i \in 1..Len(values) |-> [value |-> values[i], type |-> type, source |-> "alert_data"]]

AlertRawIocs_HashFirst(alert_data) ==
    Tagged(FindAll("md5", alert_data), "md5")
    \o Tagged(FindAll("sha1", alert_data), "sha1")
    \o Tagged(FindAll("sha256", alert_data), "sha256")
    \o Tagged(FindAll("url", alert_data), "url")
    \o Tagged(FindAll("ip", alert_data), "ip")
    \o Tagged(SelectSeq(FindAll("domain", alert_data), AlertDomainKept), "domain")

\* lines 39-69: the list iocs before deduplication
AlertRawIocs(alert_data) ==
    Tagged(FindAll("ip", alert_data), "ip")
    \o Tagged(SelectSeq(FindAll("domain", alert_data), AlertDomainKept), "domain")
    \o Tagged(FindAll("url", alert_data), "url")
    \o Tagged(FindAll("md5", alert_data), "md5")
    \o Tagged(FindAll("sha1", alert_data), "sha1")
    \o Tagged(FindAll("sha256", alert_data), "sha256")

\* lines 72-80: the loop over iocs from index i on, with unique_iocs and seen
RECURSIVE DedupLimitLoop(_, _, _, _, _)
DedupLimitLoop(iocs, i, unique, seen, max) ==
    IF i > Len(iocs) THEN unique
    ELSE LET key == <<iocs[i].value, iocs[i].type>>
         IN  IF key \notin seen
             THEN LET grown == Append(unique, iocs[i])
                  IN  IF Len(grown) >= max THEN grown
                      ELSE DedupLimitLoop(iocs, i + 1, grown, seen \cup {key}, max)
             ELSE DedupLimitLoop(iocs, i + 1, unique, seen, max)

DedupLimit_NoSeen(iocs, max) ==
    IF iocs = <<>> THEN <<>> ELSE SubSeq(iocs, 1, Min2(Len(iocs), Max2(max, 1)))

DedupLimit(iocs, max) == DedupLimitLoop(iocs, 1, <<>>, {}, max)

extract_iocs_from_alert_Fallback(alert_data, max) ==
    IF AlertRawIocs(alert_data) = <<>>
    THEN <<[value |-> alert_data, type |-> "unknown", source |-> "alert_data"]>>
    ELSE DedupLimit(AlertRawIocs(alert_data), max)

extract_iocs_from_alert(alert_data, max) == DedupLimit(AlertRawIocs(alert_data), max)

(***************************************************************************)
(* threat_hunting_specialist._extract_iocs_from_text                       *)
(***************************************************************************)
\* line 44: the domains that _extract_iocs_from_text keeps
TextDomainKept(d) ==
    \/ ~EndsWithAny(d, {".com", ".org", ".net"})
    \/ Contains(Lower(d), "malicious")
    \/ Contains(Lower(d), "suspicious")
    \/ Contains(Lower(d), "bad")

\* lines 33-60: the list iocs before cleaning
TextRawIocs(t) ==
    FindAll("ip", t)
    \o SelectSeq(FindAll("domain", t), TextDomainKept)
    \o FindAll("url", t)
    \o FindAll("md5", t)
    \o FindAll("sha1", t)
    \o FindAll("sha256", t)

\* lines 63-67: the loop over iocs from index i on, with cleaned_iocs
RECURSIVE CleanDedupLoop(_, _, _)
CleanDedupLoop(iocs, i, cleaned) ==
    IF i > Len(iocs) THEN cleaned
    ELSE LET ioc == Strip(iocs[i])
         IN  IF ioc /= "" /\ ioc \notin Range(cleaned)
             THEN CleanDedupLoop(iocs, i + 1, Append(cleaned, ioc))
             ELSE CleanDedupLoop(iocs, i + 1, cleaned)

CleanDedup(iocs) == CleanDedupLoop(iocs, 1, <<>>)

extract_iocs_from_text(t) == CleanDedup(TextRawIocs(t))

(***************************************************************************)
(* Inputs of the extractors: texts made of tokens separated by one space.  *)
(***************************************************************************)
\* Number of tokens of the longest text.
MaxTokens == 2
\* Largest configured max_iocs_per_analysis.
MaxCap == 3

Md5Token == "5f4dcc3b5aa765d61d8327deb882cf99"
Sha1Token == "5BAA61E4C9B93F3F0682250B6CF8331B7EE68FD8"
Sha256Token == Md5Token \o "0123456789abcdefABCDEF0123456789"

Tokens ==
    {"", "\t", "Contact", "10.0.0.5", "999.300.1.1,", "evil.xyz", "ok.com",
     "suspicious-c2.com", "bad.net", "srv.local", "MALICIOUS.ORG",
     "http://evil.xyz/a.", "https://ok.com", Md5Token, Sha1Token, Sha256Token}

RECURSIVE JoinSp(_)
JoinSp(ts) ==
    IF ts = <<>> THEN ""
    ELSE IF Len(ts) = 1 THEN ts[1]
    ELSE ts[1] \o " " \o JoinSp(Tail(ts))

\* the alert text of the extraction scenario
ScenarioText ==
    "Contact admin, suspicious-c2.com connected to 203.0.113.5, hash " \o Md5Token

Texts == {JoinSp(ts) : ts \in SeqsUpTo(Tokens, MaxTokens)} \cup {ScenarioText}

InitExtract ==
    /\ done = {}
    /\ IdleRest
    /\ IdleRecommend /\ IdleClient /\ IdleConcurrent
    /\ text \in Texts
    /\ max_iocs_per_analysis \in 0..MaxCap
    /\ unique_iocs = NotRun
    /\ cleaned_iocs = NotRun
    /\ IdleDetect /\ IdleScore /\ IdleReport /\ IdleHunt

ExtractFromAlert ==
    /\ "extract_alert" \notin done
    /\ unique_iocs' = extract_iocs_from_alert(text, max_iocs_per_analysis)
    /\ done' = done \cup {"extract_alert"}
    /\ UNCHANGED <<text, max_iocs_per_analysis, cleaned_iocs,
                   detectVars, scoreVars, reportVars, huntVars,
                   recommendVars, clientVars, concVars, restVars>>

ExtractFromText ==
    /\ "extract_text" \notin done
    /\ cleaned_iocs' = extract_iocs_from_text(text)
    /\ done' = done \cup {"extract_text"}
    /\ UNCHANGED <<text, max_iocs_per_analysis, unique_iocs,
                   detectVars, scoreVars, reportVars, huntVars,
                   recommendVars, clientVars, concVars, restVars>>

NextExtract == ExtractFromAlert \/ ExtractFromText

Spec == InitExtract /\ [][NextExtract]_vars

(***************************************************************************)
(* threat_hunting_specialist.hunt_threats, lines 457-472: the indicators   *)
(* that the call goes on to analyse.                                       *)
(***************************************************************************)
\* Number of tokens of the longest incident_data.
MaxHuntTokens == 2
\* Number of comma separated items of the longest ioc_list.
MaxProvided == 2

\* [ioc.strip() for ioc in pieces if ioc.strip()]
RECURSIVE StripNonEmpty(_)
StripNonEmpty(pieces) ==
    IF pieces = <<>> THEN <<>>
    ELSE LET ioc == Strip(Head(pieces))
         IN  (IF ioc /= "" THEN <<ioc>> ELSE <<>>) \o StripNonEmpty(Tail(pieces))

\* line 458
ParseIocList(list) == IF list /= "" THEN StripNonEmpty(Split(list, ",")) ELSE <<>>

\* list(set(items)): the distinct items in the iteration order of a set of
\* str, which the code does not control (str hashes are salted per process);
\* every order of the distinct items is a possible result.
ListOfSet(items) ==
    LET S == Range(items)
        n == Cardinality(S)
    IN  {q \in [1..n -> S] : \A i, j \in 1..n : i /= j => q[i] /= q[j]}

HuntTokens == {"", "10.0.0.5", "evil.xyz", "ok.com", "http://evil.xyz/a.", Md5Token}

HuntTexts == {JoinSp(ts) : ts \in SeqsUpTo(HuntTokens, MaxHuntTokens)}

ListItems == {"", " 10.0.0.5", "evil.xyz ", "c2.example"}

RECURSIVE JoinComma(_)
JoinComma(ts) ==
    IF ts = <<>> THEN ""
    ELSE IF Len(ts) = 1 THEN ts[1]
    ELSE ts[1] \o "," \o JoinComma(Tail(ts))

IocLists == {JoinComma(ts) : ts \in SeqsUpTo(ListItems, MaxProvided)}

InitHunt ==
    /\ done = {}
    /\ IdleRest
    /\ IdleRecommend /\ IdleClient /\ IdleConcurrent
    /\ incident_data \in HuntTexts
    /\ ioc_list \in IocLists
    /\ provided_iocs = NotRun
    /\ extracted_iocs = NotRun
    /\ all_iocs = NotRun
    /\ IdleDetect /\ IdleScore /\ IdleReport /\ IdleExtract

HuntCombine ==
    /\ "hunt_combine" \notin done
    /\ provided_iocs' = ParseIocList(ioc_list)
    /\ extracted_iocs' = extract_iocs_from_text(incident_data)
    /\ all_iocs' \in ListOfSet(provided_iocs' \o extracted_iocs')
    /\ done' = done \cup {"hunt_combine"}
    /\ UNCHANGED <<incident_data, ioc_list, detectVars, scoreVars, reportVars, extractVars,
                   recommendVars, clientVars, concVars, restVars>>

NextHunt == HuntCombine

SpecHunt == InitHunt /\ [][NextHunt]_vars

(***************************************************************************)
(* Recommendations of the VirusTotal analyzer (virustotal_analyzer.py).    *)
(***************************************************************************)
\* lines 345-376: the dict recommendations
RecommendationTable ==
    [Critical |-> <<"Immediately isolate affected systems",
                    "Block IOC at network perimeter (firewall/proxy)",
                    "Initiate incident response procedures",
                    "Scan for lateral movement indicators">>,
     High |-> <<"Block IOC in security controls",
                "Monitor for related activity",
                "Review system logs for exposure",
                "Consider quarantining suspicious files">>,
     Medium |-> <<"Add IOC to watchlists for monitoring",
                  "Review associated network activity",
                  "Update security signatures",
                  "Schedule deeper investigation">>,
     Low |-> <<"Monitor IOC activity",
               "Document for future reference",
               "Consider adding to low-priority watchlist">>,
     Clean |-> <<"No immediate action required",
                 "Continue routine monitoring",
                 "Remove from active investigation if applicable">>,
     Unknown |-> <<"Gather additional intelligence",
                   "Submit for further analysis if suspicious",
                   "Monitor for future activity">>]

\* sep.join(parts)
RECURSIVE Join(_, _)
Join(sep, parts) ==
    IF parts = <<>> THEN ""
    ELSE IF Len(parts) = 1 THEN parts[1]
    ELSE parts[1] \o sep \o Join(sep, Tail(parts))

\* line 379: [f"- {action}" for action in actions]
Bulleted(actions) == [i \in 1..Len(actions) |-> "- " \o actions[i]]

generate_recommendations_ByAnalysis(an, level) ==
    LET actions == Get(RecommendationTable, level, RecommendationTable["Unknown"])
    IN  Join("\n", Bulleted(
            IF Get(an, "malicious", 0) > 0
            THEN Append(actions, "Review the malicious detections")
            ELSE actions))

generate_recommendations_KeyError(an, level) ==
    IF level \in DOMAIN RecommendationTable
    THEN Join("\n", Bulleted(RecommendationTable[level]))
    ELSE "KeyError"

\* lines 343-382: _generate_recommendations(analysis, threat_level)
generate_recommendations(an, level) ==
    LET actions == Get(RecommendationTable, level, RecommendationTable["Unknown"])
    IN  Join("\n", Bulleted(actions))

\* Largest malicious count of the analyses given to the recommendations.
MaxRecMalicious == 8

\* the levels that _assess_threat_level returns
ThreatLevels == {"Clean", "Low", "Medium", "High", "Critical", "Unknown"}

\* strings that are no level
OtherLevels == {"", "critical", "CRITICAL", "Severe", "Informational", "unknown"}

RecAnalyses ==
    {[malicious |-> m, total_engines |-> 70] : m \in 0..MaxRecMalicious} \cup {NoDict}

InitRecommend ==
    /\ done = {}
    /\ IdleRest
    /\ analysis \in RecAnalyses
    /\ threat_level \in ThreatLevels \cup OtherLevels
    /\ recommendations = NotRun
    /\ IdleDetect /\ IdleReport /\ IdleExtract /\ IdleHunt
    /\ IdleClient /\ IdleConcurrent

GenerateRecommendations ==
    /\ "recommend" \notin done
    /\ recommendations' = generate_recommendations(analysis, threat_level)
    /\ done' = done \cup {"recommend"}
    /\ UNCHANGED <<detectVars, scoreVars, reportVars, extractVars, huntVars,
                   clientVars, concVars, restVars>>

NextRecommend == GenerateRecommendations

SpecRecommend == InitRecommend /\ [][NextRecommend]_vars

(***************************************************************************)
(* The two reputation clients: VirusTotalClient (virustotal_analyzer.py)   *)
(* and ThreatFoxClient (threat_hunting_specialist.py).  A response is the  *)
(* answer of the remote service to one request; the state st of a client   *)
(* call is the clock, self.last_request_time and the log of the requests   *)
(* sent and the sleeps made.                                               *)
(***************************************************************************)
Clients == {"virustotal", "threatfox"}

\* VirusTotalAnalyzerConfig.rate_limit (requests per minute)
rate_limit == 4
\* ThreatHuntingSpecialistConfig.rate_limit_delay (seconds)
rate_limit_delay == 1

\* Python None, as a value that is no dict of the model
None == [None |-> TRUE]

\* bool(result) of an Optional[Dict]
Truthy(result) == result /= None /\ result /= NoDict

RECURSIVE SumValues(_)
SumValues(d) ==
    IF DOMAIN d = {} THEN 0
    ELSE LET k == CHOOSE x \in DOMAIN d : TRUE
         IN  d[k] + SumValues([x \in DOMAIN d \ {k} |-> d[x]])

\* time.sleep(seconds) followed by the next reading of time.time()
Sleep(st, client, seconds) ==
    [st EXCEPT !.now = @ + seconds,
               !.log = Append(@, [client |-> client, event |-> "sleep", at |-> st.now])]

\* requests.get / requests.post
Send(st, client, method) ==
    [st EXCEPT !.log = Append(@, [client |-> client, event |-> method, at |-> st.now])]

\* VirusTotalClient._rate_limit
VT_rate_limit(offline, key, st) ==
    IF ~offline /\ key /= ""
    THEN LET time_since_last == st.now - st.last_request_time
             delay == 60 \div rate_limit
             waited == IF time_since_last < delay
                       THEN Sleep(st, "virustotal", delay - time_since_last)
                       ELSE st
         IN  [waited EXCEPT !.last_request_time = waited.now]
    ELSE st

\* VirusTotalClient._make_request (method GET)
VT_make_request(offline, key, response, st) ==
    IF offline \/ key = ""
    THEN [result |-> None, st |-> st]
    ELSE LET sent == Send(VT_rate_limit(offline, key, st), "virustotal", "GET")
         IN  [result |-> IF response.status = "json" THEN response.body ELSE None,
              st |-> sent]

get_mock_file_analysis(file_hash) ==
    LET by_length == Len(file_hash) % 70
        malicious_count ==
            IF Contains(Lower(file_hash), "backdoor") \/ Contains(Lower(file_hash), "malware")
            THEN Max2(45, by_length)
            ELSE IF Contains(Lower(file_hash), "clean") THEN 0 ELSE by_length
    IN  [hash |-> file_hash, malicious |-> malicious_count, suspicious |-> 2,
         undetected |-> 70 - malicious_count - 2, harmless |-> 0,
         total_engines |-> 70]

get_mock_url_analysis(url) ==
    LET malicious_count == IF Contains(Lower(url), "malicious") THEN 12 ELSE 0
    IN  [url |-> url, malicious |-> malicious_count, suspicious |-> 1,
         undetected |-> 70 - malicious_count - 1, harmless |-> 0,
         total_engines |-> 70]

get_mock_ip_analysis(ip) ==
    LET malicious_count ==
            IF ip \in {"192.168.1.100", "203.0.113.100", "10.0.0.100"} THEN 15 ELSE 0
    IN  [ip |-> ip, malicious |-> malicious_count, suspicious |-> 2,
         undetected |-> 70 - malicious_count - 2, harmless |-> 0,
         total_engines |-> 70]

get_mock_domain_analysis(domain) ==
    LET malicious_count ==
            IF Contains(Lower(domain), "malicious") \/ Contains(Lower(domain), "suspicious")
            THEN 8 ELSE 0
    IN  [domain |-> domain, malicious |-> malicious_count, suspicious |-> 1,
         undetected |-> 70 - malicious_count - 1, harmless |-> 0,
         total_engines |-> 70]

\* the _get_mock_*_analysis that each analyze_* method falls back to
MockAnalysis(kind, value) ==
    CASE kind = "hash" -> get_mock_file_analysis(value)
      [] kind = "url" -> get_mock_url_analysis(value)
      [] kind = "ip" -> get_mock_ip_analysis(value)
      [] kind = "domain" -> get_mock_domain_analysis(value)

\* the dict that each analyze_* method builds from last_analysis_stats
ParsedAnalysis(kind, value, stats) ==
    (kind :> value) @@
    [malicious |-> Get(stats, "malicious", 0),
     suspicious |-> Get(stats, "suspicious", 0),
     undetected |-> Get(stats, "undetected", 0),
     harmless |-> Get(stats, "harmless", 0),
     total_engines |-> IF stats /= NoDict THEN SumValues(stats) ELSE 0]

\* analyze_file_hash, analyze_url, analyze_ip, analyze_domain (kind tells which)
VT_analyze(offline, key, kind, value, response, st) ==
    IF offline
    THEN [analysis |-> MockAnalysis(kind, value), st |-> st]
    ELSE LET req == VT_make_request(offline, key, response, st)
         IN  IF Truthy(req.result) /\ "data" \in DOMAIN req.result
             THEN [analysis |-> ParsedAnalysis(kind, value, req.result.data),
                   st |-> req.st]
             ELSE [analysis |-> MockAnalysis(kind, value), st |-> req.st]

\* lines 441-442 of analyze_ioc_with_virustotal: whether the note on simulated
\* data is appended to the report
ReportNote(offline) == offline

\* ThreatFoxClient._rate_limit
TF_rate_limit(offline, st) ==
    IF ~offline
    THEN LET time_since_last == st.now - st.last_request_time
             waited == IF time_since_last < rate_limit_delay
                       THEN Sleep(st, "threatfox", rate_limit_delay - time_since_last)
                       ELSE st
         IN  [waited EXCEPT !.last_request_time = waited.now]
    ELSE st

\* the part of search_ioc after the offline test: lines 301-364
TF_post(offline, response, st) ==
    LET sent == Send(TF_rate_limit(offline, st), "threatfox", "POST")
    IN  [result |-> IF response.status = "json" THEN response.body
                    ELSE [query_status |-> "error", error |-> response.status,
                          data |-> <<>>],
         st |-> sent]

search_ioc_NoOfflineTest(offline, response, st) == TF_post(offline, response, st)

\* ThreatFoxClient.search_ioc
search_ioc(offline, response, st) ==
    IF offline
    THEN [result |-> [query_status |-> "offline_mode", data |-> <<>>], st |-> st]
    ELSE TF_post(offline, response, st)

\* Longest time, in seconds, that passes between two calls of a client.
MaxTick == 1
\* Largest number of indicators that hunt_threats searches.
MaxQueries == 2

\* answers of the VirusTotal service: last_analysis_stats under data, a body
\* without data, an empty body, a failed request
VTResponses ==
    {[status |-> "json", body |-> [data |-> stats]] :
        stats \in {NoDict, [malicious |-> 5, undetected |-> 65]}}
    \cup {[status |-> "json", body |-> [error |-> 404]],
          [status |-> "json", body |-> NoDict],
          [status |-> "RequestException"]}

\* answers of the ThreatFox service
TFResponses ==
    {[status |-> "json", body |-> [query_status |-> "ok", data |-> <<"botnet_cc">>]],
     [status |-> "json", body |-> [query_status |-> "no_result", data |-> <<>>]],
     [status |-> "Timeout"]}

\* ioc_type arguments of analyze_ioc_with_virustotal
IocTypeArgs == {"auto", "email"}

ClientIocs == {"192.168.1.100", "https://malicious.example/x", "malware"}

\* iocs[:10] of hunt_threats, for n indicators
HuntIocs(n) == [i \in 1..n |-> IF i % 2 = 1 THEN "10.0.0.5" ELSE "evil.xyz"]

StateOf(client) ==
    [now |-> now, last_request_time |-> last_request_time[client], log |-> http_log]

RecordPass_NoElse(ti, ioc, ioc_result) ==
    LET status == Get(ioc_result, "query_status", "unknown")
        data == Get(ioc_result, "data", <<>>)
        entries ==
            IF status = "ok" /\ data /= <<>>
            THEN <<[ioc |-> ioc, matches |-> Len(data), threats |-> data]>>
            ELSE IF status = "no_result"
            THEN <<[ioc |-> ioc, matches |-> 0, status |-> "clean_or_unknown"]>>
            ELSE IF status = "offline_mode"
            THEN <<[ioc |-> ioc, matches |-> 0, status |-> "offline_mode"]>>
            ELSE <<>>
    IN  [ioc_analysis |-> ti.ioc_analysis \o entries,
         raw_api_responses |->
             Append(ti.raw_api_responses,
                    [ioc |-> ioc, raw_response |-> ioc_result,
                     response_status |-> status])]

\* lines 484-523 of hunt_threats: the two entries recorded for one searched ioc
RecordPass(ti, ioc, ioc_result) ==
    LET \* .get("query_status") is None without the key, which equals no status
        status == Get(ioc_result, "query_status", "unknown")
        data == Get(ioc_result, "data", <<>>)
        entry ==
            IF status = "ok" /\ data /= <<>>
            THEN [ioc |-> ioc, matches |-> Len(data), threats |-> data]
            ELSE IF status = "no_result"
            THEN [ioc |-> ioc, matches |-> 0, status |-> "clean_or_unknown"]
            ELSE IF status = "offline_mode"
            THEN [ioc |-> ioc, matches |-> 0, status |-> "offline_mode"]
            ELSE [ioc |-> ioc, matches |-> 0, status |-> "error",
                  error |-> Get(ioc_result, "error", "Unknown error")]
    IN  [ioc_analysis |-> Append(ti.ioc_analysis, entry),
         raw_api_responses |->
             Append(ti.raw_api_responses,
                    [ioc |-> ioc, raw_response |-> ioc_result,
                     response_status |-> status])]

\* threat_intelligence of hunt_threats before its loop (lines 474-480)
NoIntelligence == [ioc_analysis |-> <<>>, raw_api_responses |-> <<>>]

InitClient ==
    /\ done = {}
    /\ offline_mode \in [Clients -> BOOLEAN]
    /\ api_key \in {[c \in Clients |-> k] : k \in {"", "key"}}
    /\ now = (60 \div rate_limit) + rate_limit_delay
    /\ last_request_time = [c \in Clients |-> 0]
    /\ http_log = <<>>
    /\ ioc_value \in ClientIocs
    /\ vt_type = NotRun
    /\ tf_type = NotRun
    /\ vt_analysis = NotRun
    /\ tf_queue \in {HuntIocs(n) : n \in 0..MaxQueries}
    /\ tf_results = <<>>
    /\ vt_budget = 1
    /\ simulated_note = NotRun
    /\ threat_intelligence = NoIntelligence
    /\ tf_service = <<>>
    /\ IdleScore /\ IdleReport /\ IdleExtract /\ IdleHunt
    /\ IdleRecommend /\ IdleConcurrent
    /\ IdleOrch /\ IdleHello /\ IdleTakedown

\* analyze_ioc_with_virustotal(ioc_value, ioc_type), with a client of its own;
\* dt seconds have passed since the step before
AnalyzeIocWithVirustotal ==
    /\ vt_budget > 0
    /\ \E arg \in IocTypeArgs, response \in VTResponses, dt \in 0..MaxTick :
        LET ioc_type == IF arg = "auto" THEN VT_detect_ioc_type(ioc_value) ELSE arg
            fresh == [now |-> now + dt, last_request_time |-> 0, log |-> http_log]
        IN  /\ vt_type' = ioc_type
            /\ IF ioc_type \in {"hash", "url", "ip", "domain"}
               THEN LET out == VT_analyze(offline_mode["virustotal"],
                                          api_key["virustotal"],
                                          ioc_type, ioc_value, response, fresh)
                    IN  /\ vt_analysis' = out.analysis
                        /\ threat_level' = assess_threat_level(out.analysis)
                        /\ recommendations' =
                              generate_recommendations(out.analysis, threat_level')
                        /\ simulated_note' = ReportNote(offline_mode["virustotal"])
                        /\ now' = out.st.now
                        /\ http_log' = out.st.log
                        /\ last_request_time' =
                              [last_request_time EXCEPT
                                  !["virustotal"] = out.st.last_request_time]
               ELSE /\ vt_analysis' = [error |-> "Unsupported IOC type"]
                    /\ simulated_note' = FALSE
                    /\ now' = now + dt
                    /\ UNCHANGED <<threat_level, recommendations, http_log,
                                   last_request_time>>
    /\ vt_budget' = vt_budget - 1
    /\ done' = done \cup {"analyze_ioc"}
    /\ UNCHANGED <<ioc_value, tf_type, analysis, reportVars, extractVars, huntVars,
                   offline_mode, api_key, tf_queue, tf_results, concVars,
                   queryVars, orchVars, helloVars, takedownVars>>

\* one pass of the loop of hunt_threats: client.search_ioc(ioc.strip()) and the
\* entries recorded for it
HuntSearchIoc ==
    /\ tf_queue /= <<>>
    /\ \E response \in TFResponses, dt \in 0..MaxTick :
        LET st == [StateOf("threatfox") EXCEPT !.now = now + dt]
            out == search_ioc(offline_mode["threatfox"], response, st)
        IN  /\ tf_results' = Append(tf_results,
                                    [ioc |-> Head(tf_queue), ioc_result |-> out.result])
            /\ threat_intelligence' =
                  RecordPass(threat_intelligence, Head(tf_queue), out.result)
            /\ now' = out.st.now
            /\ http_log' = out.st.log
            /\ last_request_time' =
                  [last_request_time EXCEPT !["threatfox"] = out.st.last_request_time]
    /\ tf_queue' = Tail(tf_queue)
    /\ UNCHANGED <<done, detectVars, scoreVars, reportVars, extractVars, huntVars,
                   recommendVars, offline_mode, api_key, vt_analysis, concVars,
                   rateVars, tf_service, orchVars, helloVars, takedownVars>>

NextClient == AnalyzeIocWithVirustotal \/ HuntSearchIoc

SpecClient == InitClient /\ [][NextClient]_vars

(***************************************************************************)
(* Concurrent invocations of the tools.  Every invocation has a frame of   *)
(* its own with its arguments and locals; a step of one invocation is      *)
(* taken between any two steps of the others.  The tools run offline.      *)
(***************************************************************************)
\* Number of invocations that run at the same time.
NumCallers == 2

Callers == 1..NumCallers

\* the frame of a call that has not started
NewFrame(tool, data, list, value) ==
    [tool |-> tool, pc |-> "start",
     incident_data |-> data, ioc_list |-> list, ioc_value |-> value,
     provided_iocs |-> <<>>, iocs |-> <<>>, i |-> 1, cleaned_iocs |-> <<>>,
     ioc_type |-> NotRun, analysis |-> NoDict, threat_level |-> NotRun,
     result |-> NotRun]

Calls ==
    {NewFrame("hunt_threats", data, list, "") :
        data \in {"10.0.0.5 evil.xyz 10.0.0.5", "evil.xyz bad.net"},
        list \in {"", " 1.2.3.4 ,evil.xyz"}}
    \cup {NewFrame("analyze_ioc_with_virustotal", "", "", value) :
        value \in {"192.168.1.100", "malware"}}

CleanedOf_Shared(fs, c) == fs[1].cleaned_iocs

\* the list cleaned_iocs of invocation c, a local of _extract_iocs_from_text
CleanedOf(fs, c) == fs[c].cleaned_iocs

InitConcurrent ==
    /\ done = {}
    /\ IdleRest
    /\ frames \in [Callers -> Calls]
    /\ offline_mode = [c \in Clients |-> TRUE]
    /\ api_key = [c \in Clients |-> ""]
    /\ now = 0
    /\ last_request_time = [c \in Clients |-> 0]
    /\ http_log = <<>>
    /\ vt_analysis = NotRun
    /\ tf_queue = <<>>
    /\ tf_results = <<>>
    /\ IdleDetect /\ IdleScore /\ IdleReport /\ IdleExtract /\ IdleHunt
    /\ IdleRecommend

Step(c, frame) ==
    /\ frames' = [frames EXCEPT ![c] = frame]
    /\ UNCHANGED <<done, detectVars, scoreVars, reportVars, extractVars, huntVars,
                   recommendVars, clientVars, restVars>>

\* hunt_threats up to the loop of _extract_iocs_from_text: the provided list
\* is parsed and the patterns are matched
HuntStart(c) ==
    /\ frames[c].tool = "hunt_threats" /\ frames[c].pc = "start"
    /\ Step(c, [frames[c] EXCEPT
                   !.provided_iocs = ParseIocList(frames[c].ioc_list),
                   !.iocs = TextRawIocs(frames[c].incident_data),
                   !.i = 1,
                   !.cleaned_iocs = <<>>,
                   !.pc = "loop"])

\* one pass of the loop that cleans and deduplicates
HuntLoop(c) ==
    /\ frames[c].pc = "loop" /\ frames[c].i <= Len(frames[c].iocs)
    /\ LET ioc == Strip(frames[c].iocs[frames[c].i])
           cleaned == CleanedOf(frames, c)
       IN  Step(c, [frames[c] EXCEPT
                       !.cleaned_iocs =
                           IF ioc /= "" /\ ioc \notin Range(cleaned)
                           THEN Append(cleaned, ioc) ELSE cleaned,
                       !.i = @ + 1])

\* the loop has ended: set(provided_iocs + extracted_iocs) is what the call
\* goes on to search
HuntReturn(c) ==
    /\ frames[c].pc = "loop" /\ frames[c].i > Len(frames[c].iocs)
    /\ Step(c, [frames[c] EXCEPT
                   !.result = Range(frames[c].provided_iocs)
                                  \cup Range(CleanedOf(frames, c)),
                   !.pc = "returned"])

\* analyze_ioc_with_virustotal: ioc_type = _detect_ioc_type(ioc_value)
AnalyzeDetect(c) ==
    /\ frames[c].tool = "analyze_ioc_with_virustotal" /\ frames[c].pc = "start"
    /\ Step(c, [frames[c] EXCEPT
                   !.ioc_type = VT_detect_ioc_type(frames[c].ioc_value),
                   !.pc = "detected"])

\* analysis = vt_client.analyze_*(ioc_value), with the client of this call
AnalyzeLookup(c) ==
    /\ frames[c].pc = "detected"
    /\ LET fresh == [now |-> now, last_request_time |-> 0, log |-> http_log]
           out == VT_analyze(offline_mode["virustotal"], api_key["virustotal"],
                             frames[c].ioc_type, frames[c].ioc_value, None, fresh)
       IN  Step(c, [frames[c] EXCEPT !.analysis = out.analysis, !.pc = "analyzed"])

\* threat_level = _assess_threat_level(analysis)
AnalyzeAssess(c) ==
    /\ frames[c].pc = "analyzed"
    /\ Step(c, [frames[c] EXCEPT
                   !.threat_level = assess_threat_level(frames[c].analysis),
                   !.pc = "assessed"])

\* recommendations = _generate_recommendations(...) and the report is returned
AnalyzeReturn(c) ==
    /\ frames[c].pc = "assessed"
    /\ Step(c, [frames[c] EXCEPT
                   !.result =
                       [analysis |-> frames[c].analysis,
                        threat_level |-> frames[c].threat_level,
                        recommendations |->
                            generate_recommendations(frames[c].analysis,
                                                     frames[c].threat_level)],
                   !.pc = "returned"])

NextConcurrent ==
    \E c \in Callers :
        \/ HuntStart(c)
        \/ HuntLoop(c)
        \/ HuntReturn(c)
        \/ AnalyzeDetect(c)
        \/ AnalyzeLookup(c)
        \/ AnalyzeAssess(c)
        \/ AnalyzeReturn(c)

SpecConcurrent == InitConcurrent /\ [][NextConcurrent]_vars

(***************************************************************************)
(* Successive calls of analyze_ioc_with_virustotal.                        *)
(***************************************************************************)
\* Largest number of calls of the tool in one run.
MaxCalls == 2

InitRateLimit ==
    /\ done = {}
    /\ offline_mode \in [Clients -> BOOLEAN]
    /\ api_key \in {[c \in Clients |-> k] : k \in {"", "key"}}
    /\ now = (60 \div rate_limit) + rate_limit_delay
    /\ last_request_time = [c \in Clients |-> 0]
    /\ http_log = <<>>
    /\ ioc_value \in ClientIocs
    /\ vt_type = NotRun
    /\ tf_type = NotRun
    /\ vt_analysis = NotRun
    /\ tf_queue = <<>>
    /\ tf_results = <<>>
    /\ vt_budget \in 1..MaxCalls
    /\ simulated_note = NotRun
    /\ threat_intelligence = NoIntelligence
    /\ tf_service = <<>>
    /\ IdleScore /\ IdleReport /\ IdleExtract /\ IdleHunt
    /\ IdleRecommend /\ IdleConcurrent
    /\ IdleOrch /\ IdleHello /\ IdleTakedown

NextRateLimit == AnalyzeIocWithVirustotal

SpecRateLimit == InitRateLimit /\ [][NextRateLimit]_vars

(***************************************************************************)
(* The query loop of hunt_threats over all_iocs.                           *)
(***************************************************************************)
\* line 483: for ioc in iocs[:10]
QueryLimit == 10

\* Largest number of distinct indicators given to hunt_threats.
MaxHuntIocs == 12

\* str(d) of one decimal digit
Dec(d) == SubSeq("0123456789", d + 1, d + 1)

\* n distinct indicators
ManyIocs(n) == [i \in 1..n |-> "10.0." \o Dec(i \div 10) \o "." \o Dec(i % 10)]

\* answers of the ThreatFox service, also an ok without data and a body
\* without query_status
QueryResponses ==
    <<[status |-> "json",
       body |-> [query_status |-> "ok", data |-> <<[malware |-> "Mirai"]>>]],
      [status |-> "json", body |-> [query_status |-> "no_result", data |-> <<>>]],
      [status |-> "Timeout"],
      [status |-> "json", body |-> [query_status |-> "ok", data |-> <<>>]],
      [status |-> "json", body |-> [data |-> <<>>]]>>

Rotate(q, o) == [i \in 1..Len(q) |-> q[((i - 1 + o) % Len(q)) + 1]]

\* lines 483-523: the loop of hunt_threats from the k-th indicator on; the
\* service gives its answers in turn
RECURSIVE QueryLoop(_, _, _, _, _, _)
QueryLoop(iocs, k, ti, st, offline, service) ==
    IF k > Len(iocs) THEN [ti |-> ti, st |-> st]
    ELSE LET response == service[((k - 1) % Len(service)) + 1]
             out == search_ioc(offline, response, st)
         IN  QueryLoop(iocs, k + 1, RecordPass(ti, iocs[k], out.result), out.st,
                       offline, service)

\* hunt_threats from iocs = all_iocs to the end of its loop
hunt_queries(iocs, st, offline, service) ==
    QueryLoop(SubSeq(iocs, 1, Min2(Len(iocs), QueryLimit)), 1, NoIntelligence, st,
              offline, service)

InitQuery ==
    /\ done = {}
    /\ \E n \in 0..MaxHuntIocs :
        /\ ioc_list = Join(",", ManyIocs(n))
        /\ provided_iocs = ManyIocs(n)
        /\ all_iocs = ManyIocs(n)
    /\ incident_data = ""
    /\ extracted_iocs = <<>>
    /\ offline_mode \in {[c \in Clients |-> b] : b \in BOOLEAN}
    /\ api_key = [c \in Clients |-> ""]
    /\ now = (60 \div rate_limit) + rate_limit_delay
    /\ last_request_time = [c \in Clients |-> 0]
    /\ http_log = <<>>
    /\ vt_analysis = NotRun
    /\ tf_queue = <<>>
    /\ tf_results = <<>>
    /\ threat_intelligence = NoIntelligence
    /\ tf_service \in {Rotate(QueryResponses, o) : o \in 0..(Len(QueryResponses) - 1)}
    /\ IdleDetect /\ IdleScore /\ IdleReport /\ IdleExtract
    /\ IdleRecommend /\ IdleConcurrent
    /\ IdleRate /\ IdleOrch /\ IdleHello /\ IdleTakedown

\* hunt_threats after all_iocs: the client, the loop and the report
HuntQueries ==
    /\ "hunt_queries" \notin done
    /\ LET out == hunt_queries(all_iocs, StateOf("threatfox"),
                               offline_mode["threatfox"], tf_service)
       IN  /\ threat_intelligence' = out.ti
           /\ ioc_analysis' = out.ti.ioc_analysis
           /\ report_level' = report_threat_level(out.ti.ioc_analysis)
           /\ now' = out.st.now
           /\ http_log' = out.st.log
           /\ last_request_time' =
                 [last_request_time EXCEPT !["threatfox"] = out.st.last_request_time]
    /\ done' = done \cup {"hunt_queries"}
    /\ UNCHANGED <<detectVars, scoreVars, extractVars, huntVars, recommendVars,
                   offline_mode, api_key, vt_analysis, tf_queue, tf_results,
                   concVars, rateVars, tf_service, orchVars, helloVars, takedownVars>>

NextQuery == HuntQueries

SpecQuery == InitQuery /\ [][NextQuery]_vars

(***************************************************************************)
(* coordinate_orchestration_analysis (orchestration_coordinator.py).       *)
(* An argument that is a str s is Str(s); None is an argument that is no   *)
(* str.                                                                    *)
(***************************************************************************)
Str(s) == [str |-> s]

AnyIn(indicators, s) == \E indicator \in indicators : Contains(s, indicator)

\* _determine_script_language(asset_info, alert_data)
determine_script_language(asset, alert_data) ==
    LET asset_lower == Lower(asset)
        alert_lower == Lower(alert_data)
    IN  IF AnyIn({"windows", "win32", "microsoft", "ntfs"}, asset_lower)
        THEN "powershell"
        ELSE IF AnyIn({"linux", "unix", "centos", "ubuntu", "debian", "rhel"}, asset_lower)
        THEN "bash"
        ELSE IF AnyIn({"api", "automation", "orchestration", "workflow"}, alert_lower)
        THEN "python"
        ELSE "bash"

\* lines 246-256: the document returned when no IOC is extracted
NoIocDocument ==
    [status |-> "completed",
     threat_assessment |-> [threat_level |-> "UNKNOWN", risk_score |-> 0],
     execution_timeline |-> <<>>]

\* lines 258-283: step 1 for the primary IOC
VirusTotalStep(extracted) ==
    LET primary_ioc == extracted[1]
        threat_detected ==
            \/ Contains(Lower(primary_ioc.value), "suspicious")
            \/ Contains(Lower(primary_ioc.value), "malicious")
    IN  [virustotal_results |->
             [ioc_analyzed |-> primary_ioc.value, ioc_type |-> primary_ioc.type,
              threat_detected |-> threat_detected, confidence_score |-> 85],
         entry |-> [step |-> "virustotal_analysis", status |-> "completed",
                    iocs_analyzed |-> 1, primary_ioc |-> primary_ioc.value]]

\* lines 285-342: step 2 and the final document
ScriptStep(extracted, vt, asset, alert_data) ==
    LET script_language == determine_script_language(asset, alert_data)
        threat_detected == vt.virustotal_results.threat_detected
    IN  [status |-> "completed",
         extracted_iocs |-> extracted,
         virustotal_analysis |-> vt.virustotal_results,
         threat_assessment |->
             [threat_level |-> IF threat_detected THEN "HIGH" ELSE "LOW",
              risk_score |-> vt.virustotal_results.confidence_score,
              malicious_iocs |-> IF threat_detected THEN 1 ELSE 0,
              total_iocs |-> Len(extracted)],
         script_language |-> script_language,
         execution_timeline |->
             <<vt.entry,
               [step |-> "script_generation", status |-> "completed",
                script_language |-> script_language, scripts_generated |-> 1]>>]

\* lines 344-350: the except branch
FailedDocument(error, execution_timeline) ==
    [status |-> "failed", error |-> error,
     execution_timeline |->
         Append(execution_timeline,
                [step |-> "error_handling", status |-> "failed", error |-> error])]

coordinate_orchestration_analysis_FlagHonoured(extracted, alert_data, asset, enable) ==
    IF extracted = <<>> THEN NoIocDocument
    ELSE LET vt == VirusTotalStep(extracted)
         IN  IF asset = None
             THEN FailedDocument("AttributeError", <<vt.entry>>)
             ELSE IF enable
             THEN ScriptStep(extracted, vt, asset.str, alert_data)
             ELSE [ScriptStep(extracted, vt, asset.str, alert_data)
                      EXCEPT !.execution_timeline = <<vt.entry>>]

\* coordinate_orchestration_analysis(alert_data, asset_info) from line 230 on:
\* extracted is the list that _extract_iocs_from_alert(alert_data) returned at
\* line 228; enable is config.enable_script_generation, which the function
\* does not read
coordinate_orchestration_analysis(extracted, alert_data, asset, enable) ==
    IF extracted = <<>> THEN NoIocDocument
    ELSE LET vt == VirusTotalStep(extracted)
         IN  IF asset = None
             THEN FailedDocument("AttributeError", <<vt.entry>>)
             ELSE ScriptStep(extracted, vt, asset.str, alert_data)

OrchTexts ==
    {"", "10.0.0.5", "ok.com", "suspicious-c2.com 10.0.0.5", "malicious.xyz",
     "http://evil.xyz/a. api workflow", ScenarioText}

AssetInfos == {Str(""), Str("Windows Server 2019"), Str("Ubuntu 22.04"), None}

InitOrchestrate ==
    /\ done = {}
    /\ text \in OrchTexts
    /\ max_iocs_per_analysis \in 0..MaxCap
    /\ unique_iocs = NotRun
    /\ cleaned_iocs = NotRun
    /\ asset_info \in AssetInfos
    /\ enable_script_generation \in BOOLEAN
    /\ orchestration_results = NotRun
    /\ IdleDetect /\ IdleScore /\ IdleReport /\ IdleHunt
    /\ IdleRecommend /\ IdleClient /\ IdleConcurrent
    /\ IdleRate /\ IdleQuery /\ IdleHello /\ IdleTakedown

CoordinateOrchestration ==
    /\ "orchestrate" \notin done
    /\ unique_iocs' = extract_iocs_from_alert(text, max_iocs_per_analysis)
    /\ orchestration_results' =
          coordinate_orchestration_analysis(unique_iocs', text, asset_info,
                                            enable_script_generation)
    /\ done' = done \cup {"orchestrate"}
    /\ UNCHANGED <<text, max_iocs_per_analysis, cleaned_iocs, asset_info,
                   enable_script_generation, detectVars, scoreVars, reportVars,
                   huntVars, recommendVars, clientVars, concVars,
                   rateVars, queryVars, helloVars, takedownVars>>

NextOrchestrate == CoordinateOrchestration

SpecOrchestrate == InitOrchestrate /\ [][NextOrchestrate]_vars

(***************************************************************************)
(* Specification of the mock analyses: _get_mock_file_analysis,            *)
(* _get_mock_url_analysis, _get_mock_ip_analysis, _get_mock_domain_analysis *)
(* applied to one input string each.                                       *)
(***************************************************************************)
MockKinds == {"hash", "url", "ip", "domain"}

\* lengths around total_engines = 70, where len(file_hash) % 70 wraps
MockLengths == {70 + d : d \in (0 - Slack - 1)..Slack}

MockValues ==
    DetectValues
    \cup ClientIocs
    \cup {p \o Alternate("a", "7", n - Len(p)) :
              p \in {"", "clean-", "Malware-"}, n \in MockLengths}

InitMock ==
    /\ done = {}
    /\ ioc_value \in MockValues
    /\ vt_type = NotRun
    /\ tf_type = NotRun
    /\ vt_analysis = NotRun
    /\ offline_mode = NoDict
    /\ api_key = NoDict
    /\ now = 0
    /\ last_request_time = NoDict
    /\ http_log = <<>>
    /\ tf_queue = <<>>
    /\ tf_results = <<>>
    /\ IdleScore /\ IdleReport /\ IdleExtract /\ IdleHunt
    /\ IdleRecommend /\ IdleConcurrent /\ IdleRest

GetMockAnalysis ==
    /\ "mock" \notin done
    /\ \E kind \in MockKinds : vt_analysis' = MockAnalysis(kind, ioc_value)
    /\ done' = done \cup {"mock"}
    /\ UNCHANGED <<detectVars, scoreVars, reportVars, extractVars, huntVars,
                   recommendVars, offline_mode, api_key, now, last_request_time,
                   http_log, tf_queue, tf_results, concVars, restVars>>

NextMock == GetMockAnalysis

SpecMock == InitMock /\ [][NextMock]_vars

(***************************************************************************)
(* test_ai_connectivity (hello_test_agent.py): the retry loop.             *)
(* hello is the frame of one call: pc, the loop variable attempt, the      *)
(* outcome of every agent_executor.ainvoke so far, the number of           *)
(* asyncio.sleep(1) calls, str(last_exception) and the returned text.      *)
(***************************************************************************)
\* Largest configured max_retries (the default is 10).
MaxRetries == 10

\* what can go wrong in the try block: ainvoke raises, or its result has no
\* get method
AttemptErrors == {"ConnectionError", "AttributeError"}

NoResult == [kind |-> "none"]

InRange_Inclusive(attempt, max_attempts) == attempt <= max_attempts

\* for attempt in range(max_attempts): whether the loop body runs for attempt
InRange(attempt, max_attempts) == attempt < max_attempts

InitRetry ==
    /\ done = {}
    /\ hello_config \in [offline_mode : BOOLEAN, max_retries : 0..MaxRetries]
    /\ hello = [pc |-> "start", attempt |-> 0, outcomes |-> <<>>, sleeps |-> 0,
                last_exception |-> "None", result |-> NoResult]
    /\ IdleDetect /\ IdleScore /\ IdleReport /\ IdleExtract /\ IdleHunt
    /\ IdleRecommend /\ IdleClient /\ IdleConcurrent
    /\ IdleRate /\ IdleQuery /\ IdleOrch /\ IdleTakedown

RetryFrame ==
    UNCHANGED <<hello_config, detectVars, scoreVars, reportVars, extractVars,
                huntVars, recommendVars, clientVars, concVars, rateVars,
                queryVars, orchVars, takedownVars>>

\* lines 84-86: the offline greeting
HelloOffline ==
    /\ hello.pc = "start"
    /\ hello_config.offline_mode
    /\ hello' = [hello EXCEPT !.pc = "returned", !.result = [kind |-> "offline"]]
    /\ done' = done \cup {"hello"}
    /\ RetryFrame

\* lines 89-90: max_attempts = config.max_retries, last_exception = None
HelloEnterLoop ==
    /\ hello.pc = "start"
    /\ ~hello_config.offline_mode
    /\ hello' = [hello EXCEPT !.pc = "loop"]
    /\ done' = done \cup {"enter"}
    /\ RetryFrame

\* lines 92-138: an attempt that reaches the return in the try block
HelloAttemptSucceeds ==
    /\ hello.pc = "loop"
    /\ InRange(hello.attempt, hello_config.max_retries)
    /\ hello' = [hello EXCEPT
                    !.pc = "returned",
                    !.outcomes = Append(@, "ok"),
                    !.result = [kind |-> "ok", attempt |-> hello.attempt + 1,
                                of |-> hello_config.max_retries]]
    /\ done' = done \cup {"hello"}
    /\ RetryFrame

\* lines 140-144: the except branch, then the next value of range()
HelloAttemptFails ==
    /\ hello.pc = "loop"
    /\ InRange(hello.attempt, hello_config.max_retries)
    /\ \E e \in AttemptErrors :
          hello' = [hello EXCEPT
                       !.outcomes = Append(@, e),
                       !.last_exception = e,
                       !.sleeps = IF hello.attempt < hello_config.max_retries - 1
                                  THEN @ + 1 ELSE @,
                       !.attempt = @ + 1]
    /\ done' = done \cup {"failed_attempt"}
    /\ RetryFrame

\* lines 146-148: range() is exhausted
HelloGiveUp ==
    /\ hello.pc = "loop"
    /\ ~InRange(hello.attempt, hello_config.max_retries)
    /\ hello' = [hello EXCEPT
                    !.pc = "returned",
                    !.result = [kind |-> "failed",
                                attempts |-> hello_config.max_retries,
                                error |-> hello.last_exception]]
    /\ done' = done \cup {"hello"}
    /\ RetryFrame

NextRetry ==
    \/ HelloOffline
    \/ HelloEnterLoop
    \/ HelloAttemptSucceeds
    \/ HelloAttemptFails
    \/ HelloGiveUp

\* The coroutine is awaited to its end: a call that can take a step takes one.
SpecRetry == InitRetry /\ [][NextRetry]_vars /\ WF_vars(NextRetry)

(***************************************************************************)
(* generate_takedown_procedures (takedown_specialist.py).                  *)
(* A Python value of a JSON document is a record [t, v]: t names its type  *)
(* (dict, list, str, int, bool, NoneType) and v holds the value.           *)
(***************************************************************************)
PyDict(d) == [t |-> "dict", v |-> d]
PyList(q) == [t |-> "list", v |-> q]
PyStr(s) == [t |-> "str", v |-> s]
PyInt(n) == [t |-> "int", v |-> n]
PyBool(b) == [t |-> "bool", v |-> b]
PyNone == [t |-> "NoneType", v |-> 0]

\* json.loads for documents made of objects, arrays, strings without escape
\* sequences, integers, true, false and null, separated by JSON whitespace: a
\* parse is [ok, val, pos] with pos the index after the value, or ParseFails
\* where json.loads raises JSONDecodeError.
ParseFails == [ok |-> FALSE]
Parsed(val, pos) == [ok |-> TRUE, val |-> val, pos |-> pos]

SkipWs(s, i) == RunEnd(s, i, Whitespace) + 1

Quote == "\""

\* py_scanstring: from the opening quote at i to the next quote
ParseString(s, i) ==
    IF ChAt(s, i) /= Quote THEN ParseFails
    ELSE LET closing == {j \in (i + 1)..Len(s) : Ch(s, j) = Quote}
         IN  IF closing = {} THEN ParseFails
             ELSE LET j == CHOOSE j \in closing : \A k \in closing : j <= k
                  IN  Parsed(PyStr(SubSeq(s, i + 1, j - 1)), j + 1)

\* NUMBER_RE restricted to integers: -?(0|[1-9][0-9]*)
ParseInt(s, i) ==
    LET first == IF ChAt(s, i) = "-" THEN i + 1 ELSE i
        last == RunEnd(s, first, Digits)
        digits == SubSeq(s, first, last)
    IN  IF last < first THEN ParseFails
        ELSE IF Ch(s, first) = "0"
        THEN Parsed(PyInt(0), first + 1)
        ELSE Parsed(PyInt(IF first > i THEN 0 - ToInt(digits) ELSE ToInt(digits)),
                    last + 1)

\* the word stands at index i
WordAt(s, i, word) ==
    /\ i + Len(word) - 1 <= Len(s)
    /\ SubSeq(s, i, i + Len(word) - 1) = word

ParseLiteral(s, i) ==
    IF WordAt(s, i, "null") THEN Parsed(PyNone, i + 4)
    ELSE IF WordAt(s, i, "true") THEN Parsed(PyBool(TRUE), i + 4)
    ELSE IF WordAt(s, i, "false") THEN Parsed(PyBool(FALSE), i + 5)
    ELSE ParseInt(s, i)

RECURSIVE ParseValue(_, _), ParseMembers(_, _, _), ParseElements(_, _, _)
\* scan_once at index i
ParseValue(s, i) ==
    IF ChAt(s, i) = Quote THEN ParseString(s, i)
    ELSE IF ChAt(s, i) = "{"
    THEN (IF ChAt(s, SkipWs(s, i + 1)) = "}"
          THEN Parsed(PyDict(NoDict), SkipWs(s, i + 1) + 1)
          ELSE ParseMembers(s, SkipWs(s, i + 1), NoDict))
    ELSE IF ChAt(s, i) = "["
    THEN (IF ChAt(s, SkipWs(s, i + 1)) = "]"
          THEN Parsed(PyList(<<>>), SkipWs(s, i + 1) + 1)
          ELSE ParseElements(s, SkipWs(s, i + 1), <<>>))
    ELSE ParseLiteral(s, i)

\* JSONObject: the pairs from the key at i on; a repeated key keeps the last value
ParseMembers(s, i, pairs) ==
    LET key == ParseString(s, i)
    IN  IF ~key.ok THEN ParseFails
        ELSE LET colon == SkipWs(s, key.pos)
             IN  IF ChAt(s, colon) /= ":" THEN ParseFails
                 ELSE LET value == ParseValue(s, SkipWs(s, colon + 1))
                      IN  IF ~value.ok THEN ParseFails
                          ELSE LET end == SkipWs(s, value.pos)
                                   more == (key.val.v :> value.val) @@ pairs
                               IN  IF ChAt(s, end) = "}"
                                   THEN Parsed(PyDict(more), end + 1)
                                   ELSE IF ChAt(s, end) = ","
                                   THEN ParseMembers(s, SkipWs(s, end + 1), more)
                                   ELSE ParseFails

\* JSONArray: the values from index i on
ParseElements(s, i, values) ==
    LET value == ParseValue(s, i)
    IN  IF ~value.ok THEN ParseFails
        ELSE LET end == SkipWs(s, value.pos)
                 more == Append(values, value.val)
             IN  IF ChAt(s, end) = "]"
                 THEN Parsed(PyList(more), end + 1)
                 ELSE IF ChAt(s, end) = ","
                 THEN ParseElements(s, SkipWs(s, end + 1), more)
                 ELSE ParseFails

\* JSONDecoder.decode: one value between optional whitespace, nothing after it
json_loads(s) ==
    LET value == ParseValue(s, SkipWs(s, 1))
    IN  IF value.ok /\ SkipWs(s, value.pos) = Len(s) + 1 THEN value ELSE ParseFails

\* value.get(key, default): only a dict has the method
HasGet(value) == value.t = "dict"

\* len(value) is defined
HasLen(value) == value.t \in {"dict", "list", "str"}

\* for family in threat_families: family.lower() -- the first exception of the
\* loop of _generate_process_termination_procedures, "" if there is none
FamiliesError(threat_families) ==
    IF threat_families.t \in {"int", "bool", "NoneType"} THEN "TypeError"
    ELSE IF /\ threat_families.t = "list"
            /\ \E i \in 1..Len(threat_families.v) : threat_families.v[i].t /= "str"
    THEN "AttributeError"
    ELSE ""

\* lines 168-199: the first exception raised while the procedures are built
ProceduresError(type, threat_families) ==
    IF type \in {"process_termination", "full_containment"}
    THEN FamiliesError(threat_families)
    ELSE ""

\* lines 267-277: the except branch
TakedownFailed(error_type, type) ==
    [status |-> "failed", error |-> "str(" \o error_type \o ")",
     error_type |-> error_type, takedown_type |-> type]

\* value in [...] for a list of str
InNames(value, names) == value.t = "str" /\ value.v \in names

\* lines 157-262, for the dict data
TakedownFromData(data, type, auto) ==
    LET threat_assessment == Get(data.v, "threat_assessment", PyDict(NoDict))
        iocs == Get(data.v, "extracted_iocs", PyList(<<>>))
    IN  IF ~HasGet(threat_assessment)
        THEN TakedownFailed("AttributeError", type)
        ELSE
        LET level == Get(threat_assessment.v, "threat_level", PyStr("UNKNOWN"))
            threat_families == Get(threat_assessment.v, "threat_families", PyList(<<>>))
        IN  IF ProceduresError(type, threat_families) /= ""
            THEN TakedownFailed(ProceduresError(type, threat_families),
                                type)
            ELSE IF ~HasLen(iocs)
            THEN TakedownFailed("TypeError", type)
            ELSE [status |-> "completed",
                  takedown_type |-> type,
                  threat_context |->
                      [threat_level |-> level,
                       affected_iocs |-> IF iocs.t = "dict"
                                         THEN Cardinality(DOMAIN iocs.v)
                                         ELSE Len(iocs.v)],
                  safety_recommendations |->
                      [manual_approval_required |->
                           InNames(level, {"CRITICAL", "HIGH"})],
                  automation_readiness |->
                      [ready_for_automation |->
                           ~InNames(level, {"CRITICAL"}) /\ auto,
                       risk_assessment |->
                           IF InNames(level, {"HIGH", "MEDIUM"})
                           THEN "medium" ELSE "low"]]

generate_takedown_procedures_ParseOutsideTry(data_text, type, auto) ==
    IF ~json_loads(data_text).ok
    THEN [status |-> "raised", error_type |-> "JSONDecodeError"]
    ELSE IF ~HasGet(json_loads(data_text).val)
    THEN [status |-> "raised", error_type |-> "AttributeError"]
    ELSE TakedownFromData(json_loads(data_text).val, type, auto)

\* generate_takedown_procedures(orchestration_data, takedown_type) with
\* config.auto_execution = auto
generate_takedown_procedures(data_text, type, auto) ==
    IF ~json_loads(data_text).ok
    THEN TakedownFailed("JSONDecodeError", type)
    ELSE IF ~HasGet(json_loads(data_text).val)
    THEN TakedownFailed("AttributeError", type)
    ELSE TakedownFromData(json_loads(data_text).val, type, auto)

\* "threat_assessment": {"threat_level": <level>}
AssessmentDoc(level) ==
    "{\"threat_assessment\": {\"threat_level\": \"" \o level \o "\", \"risk_score\": 85}}"

OrchestrationDocs ==
    {"", "not json", "{\"threat_assessment\": ", "{} x",
     "[1, 2]", "null", "42", "\"text\"", "{}", " { } ",
     "{\"threat_assessment\": \"HIGH\"}",
     "{\"threat_assessment\": null}",
     "{\"threat_assessment\": {\"threat_level\": [\"HIGH\"]}}",
     "{\"threat_assessment\": {\"threat_level\": \"CRITICAL\", \"threat_families\": [\"AsyncRAT\"]}, \"extracted_iocs\": [{\"value\": \"10.0.0.5\"}], \"script_language\": \"powershell\"}",
     "{\"threat_assessment\": {\"threat_level\": \"MEDIUM\", \"threat_families\": [7]}}",
     "{\"threat_assessment\": {\"threat_level\": \"LOW\", \"threat_families\": 7}}",
     "{\"threat_assessment\": {\"threat_level\": \"LOW\", \"threat_families\": \"rat\"}}",
     "{\"threat_assessment\": {\"threat_level\": \"LOW\"}, \"extracted_iocs\": 3}",
     "{\"extracted_iocs\": true, \"threat_assessment\": {\"threat_level\": \"HIGH\", \"threat_level\": \"LOW\"}}"}
    \cup {AssessmentDoc(level) : level \in {"CRITICAL", "HIGH", "MEDIUM", "LOW", "UNKNOWN", "high"}}

TakedownTypes == {"network_isolation", "process_termination", "full_containment", "reboot"}

InitTakedown ==
    /\ done = {}
    /\ orchestration_data \in OrchestrationDocs
    /\ takedown_type \in TakedownTypes
    /\ auto_execution \in BOOLEAN
    /\ takedown_results = NotRun
    /\ IdleDetect /\ IdleScore /\ IdleReport /\ IdleExtract /\ IdleHunt
    /\ IdleRecommend /\ IdleClient /\ IdleConcurrent
    /\ IdleRate /\ IdleQuery /\ IdleOrch /\ IdleHello

GenerateTakedownProcedures ==
    /\ "takedown" \notin done
    /\ takedown_results' =
          generate_takedown_procedures(orchestration_data, takedown_type, auto_execution)
    /\ done' = done \cup {"takedown"}
    /\ UNCHANGED <<orchestration_data, takedown_type, auto_execution,
                   detectVars, scoreVars, reportVars, extractVars, huntVars,
                   recommendVars, clientVars, concVars, rateVars, queryVars,
                   orchVars, helloVars>>

NextTakedown == GenerateTakedownProcedures

SpecTakedown == InitTakedown /\ [][NextTakedown]_vars

(***************************************************************************)
(* Properties.                                                             *)
(***************************************************************************)
NoDuplicates(q) == \A i, j \in 1..Len(q) : i /= j => q[i] /= q[j]

HasDuplicates(q) == ~NoDuplicates(q)

\* C1: the sequence returned by IOC extraction has length at most the cap N,
\* for every text and every N >= 0, N = 0 included.
C1_CapRespected ==
    "extract_alert" \in done => Len(unique_iocs) <= max_iocs_per_analysis

\* C2: within one extraction result every (value, kind) pair occurs at most
\* once: no two entries have the same value and the same kind.
C2_UniquePairs ==
    /\ "extract_alert" \in done =>
          NoDuplicates([i \in 1..Len(unique_iocs) |->
                           <<unique_iocs[i].value, unique_iocs[i].type>>])
    /\ "extract_text" \in done => NoDuplicates(cleaned_iocs)

\* Both extractors have returned two or more indicators for a text in which
\* an indicator was matched more than once.
C2_Witness ==
    /\ done = {"extract_alert", "extract_text"}
    /\ HasDuplicates(AlertRawIocs(text))
    /\ HasDuplicates(TextRawIocs(text))
    /\ Len(unique_iocs) >= 2
    /\ Len(cleaned_iocs) >= 2

\* index of the first occurrence of x in q
FirstIndex(q, x) == CHOOSE i \in 1..Len(q) : q[i] = x /\ \A j \in 1..(i - 1) : q[j] /= x

\* out holds the distinct elements of in, in the order of their first occurrence
FirstSeenOrder(out, in) ==
    /\ NoDuplicates(out)
    /\ Range(out) = Range(in)
    /\ \A i, j \in 1..Len(out) : i < j => FirstIndex(in, out[i]) < FirstIndex(in, out[j])

\* C3: deduplication preserves first-seen order, inside the extractor and when
\* hunt_threats combines the provided indicators with the extracted ones.
C3_FirstSeenOrder ==
    "hunt_combine" \in done =>
        /\ FirstSeenOrder(extracted_iocs, TextRawIocs(incident_data))
        /\ FirstSeenOrder(all_iocs, provided_iocs \o extracted_iocs)

\* the band of p = malicious / total * 100 as the contract states it
ClaimedBand(malicious, total) ==
    CASE 100 * malicious >= 70 * total -> "Critical"
      [] 100 * malicious >= 30 * total /\ 100 * malicious < 70 * total -> "High"
      [] 100 * malicious >= 10 * total /\ 100 * malicious < 30 * total -> "Medium"
      [] malicious > 0 /\ 100 * malicious < 10 * total -> "Low"
      [] malicious = 0 -> "Clean"

FullAnalysis == DOMAIN analysis = {"malicious", "total_engines"}

\* C4: for total_engines > 0 and 0 <= malicious <= total_engines the score is
\* the band of p = malicious / total_engines * 100: Critical for p >= 70, High
\* for 30 <= p < 70, Medium for 10 <= p < 30, Low for 0 < p < 10, Clean for 0.
C4_ScoreBands ==
    ("assess" \in done /\ FullAnalysis
        /\ analysis.total_engines > 0 /\ analysis.malicious <= analysis.total_engines)
    => threat_level = ClaimedBand(analysis.malicious, analysis.total_engines)

\* 50 detections of 70 engines have been scored Critical.
C4_Witness ==
    /\ "assess" \in done
    /\ analysis = [malicious |-> 50, total_engines |-> 70]
    /\ threat_level = "Critical"

LevelOrder == <<"Clean", "Low", "Medium", "High", "Critical">>

LevelRank(level) == CHOOSE i \in 1..Len(LevelOrder) : LevelOrder[i] = level

\* C28: for a fixed total_engines > 0 and m1 <= m2 <= total_engines the level
\* for m2 is never lower than the level for m1 in the order
\* Clean < Low < Medium < High < Critical.
C28_ScoreMonotone ==
    ("assess" \in done /\ FullAnalysis
        /\ analysis.total_engines > 0 /\ analysis.malicious <= analysis.total_engines)
    => \A m1 \in 0..analysis.malicious :
          LevelRank(assess_threat_level([analysis EXCEPT !.malicious = m1]))
              <= LevelRank(threat_level)

\* 21 detections of 70 engines have been scored High, one detection above
\* the highest count that scores Medium.
C28_Witness ==
    /\ "assess" \in done
    /\ analysis = [malicious |-> 21, total_engines |-> 70]
    /\ threat_level = "High"
    /\ assess_threat_level([malicious |-> 20, total_engines |-> 70]) = "Medium"

\* C5: with total_engines = 0 the score is Unknown for every malicious count,
\* and no division error is raised.
C5_ZeroEnginesUnknown ==
    ("assess" \in done /\ "total_engines" \in DOMAIN analysis /\ analysis.total_engines = 0)
    => threat_level = "Unknown"

\* A detection with a positive malicious count and no engine has been scored.
C5_Witness ==
    /\ "assess" \in done
    /\ FullAnalysis
    /\ analysis.total_engines = 0
    /\ analysis.malicious > 0
    /\ threat_level = "Unknown"

\* the aggregate level as the contract states it, for k results with a positive
\* malicious count out of n
ClaimedAggregate(k, n) ==
    CASE n > 0 /\ 4 * k >= 3 * n -> "CRITICAL"
      [] n > 0 /\ 2 * k >= n /\ 4 * k < 3 * n -> "HIGH"
      [] n > 0 /\ 4 * k >= n /\ 2 * k < n -> "MEDIUM"
      [] OTHER -> "LOW"

\* C6: the aggregate level follows f = (results with malicious count > 0) /
\* (results), f = 0 for no result: Critical for f >= 75%, High for f >= 50%,
\* Medium for f >= 25%, else Low; no result gives Low without a division by zero.
C6_AggregateBands ==
    "report" \in done =>
        report_level = ClaimedAggregate(MaliciousIocs(ioc_analysis), Len(ioc_analysis))

\* The report of an empty ioc_analysis list has been generated.
C6_Witness ==
    /\ "report" \in done
    /\ ioc_analysis = <<>>
    /\ report_level = "LOW"

HashKind(n) == IF n = 32 THEN "md5" ELSE IF n = 40 THEN "sha1" ELSE "sha256"

IsHexHash(value) == Len(value) \in HashLengths /\ AllIn(value, HexChars)

\* C7 as stated: a string of only hexadecimal characters is typed md5 at length
\* 32, sha1 at length 40 and sha256 at length 64, by detect_type.
C7_HexLengthKinds ==
    IsHexHash(ioc_value) =>
        /\ "vt_detect" \in done => vt_type = HashKind(Len(ioc_value))
        /\ "tf_detect" \in done => tf_type = HashKind(Len(ioc_value))

\* C7 amended: for a string of only hexadecimal characters of length 32, 40 or
\* 64, ThreatFoxClient._detect_ioc_type returns md5, sha1 or sha256 and the
\* _detect_ioc_type of the VirusTotal analyzer returns hash.
C7_HexLengthKindsAmended ==
    IsHexHash(ioc_value) =>
        /\ "vt_detect" \in done => vt_type = "hash"
        /\ "tf_detect" \in done => tf_type = HashKind(Len(ioc_value))

\* Both detectors have typed a string of 40 hexadecimal characters.
C7_Witness ==
    /\ done = {"vt_detect", "tf_detect"}
    /\ Len(ioc_value) = 40
    /\ AllIn(ioc_value, HexChars)
    /\ vt_type = "hash"
    /\ tf_type = "sha1"

HasSchemePrefix(value) ==
    StartsWith(value, "http://") \/ StartsWith(value, "https://") \/ StartsWith(value, "ftp://")

\* a dotted quad that both notions of validity of the code accept
BareIPv4(value) == ip_address(value) /= "ValueError" /\ VTIpMatch(value)

\* a dotted quad that one of them accepts
LooseIPv4(value) == ip_address(value) /= "ValueError" \/ VTIpMatch(value)

\* the kinds that the ordered rules (1)-(5) allow for a value; where the
\* wording of a rule leaves the kind of a value open, every reading is allowed
ClaimedKinds(value) ==
    LET parts == Split(value, ":")
        host == parts[1]
    IN  IF IsHexHash(value) THEN {HashKind(Len(value)), "hash"}
        ELSE IF HasSchemePrefix(value) THEN {"url"}
        ELSE IF BareIPv4(value) THEN {"ip"}
        ELSE IF Len(parts) = 2 /\ BareIPv4(host) /\ parts[2] /= "" /\ AllIn(parts[2], Digits)
             THEN {"ip", "ip:port"}
        ELSE IF LooseIPv4(host) THEN {"ip", "ip:port", "domain", "unknown"}
        ELSE IF Contains(value, ".")
             THEN (IF StartsWith(value, "http") \/ StartsWith(value, "ftp")
                   THEN {"domain", "unknown"} ELSE {"domain"})
        ELSE {"unknown"}

\* C8: detect_type types every string by the first rule that applies: hex of
\* length 32/40/64 is a hash kind; a prefix http://, https:// or ftp:// is url;
\* a valid IPv4 address, with or without :port, is ip; a string with a '.' that
\* does not look like a URL is domain; anything else is unknown.
C8_RuleOrder ==
    /\ "vt_detect" \in done => vt_type \in ClaimedKinds(ioc_value)
    /\ "tf_detect" \in done => tf_type \in ClaimedKinds(ioc_value)

\* what C9 states of one result
C9_Expected(value, type) ==
    /\ BareIPv4(value) => type = "ip"
    /\ StartsWith(value, "https://") => type = "url"
    /\ (~Contains(value, ".") /\ ~IsHexHash(value) /\ ~HasSchemePrefix(value)) => type = "unknown"

\* C9: detect_type returns ip for a bare valid IPv4 address, url for an https://
\* value, and unknown for every string without a '.', that is no 32/40/64
\* character hex string, has no URL scheme prefix and is no IP address.
C9_Scenarios ==
    /\ "vt_detect" \in done => C9_Expected(ioc_value, vt_type)
    /\ "tf_detect" \in done => C9_Expected(ioc_value, tf_type)

\* the kinds each detector defines
VTKinds == {"hash", "url", "ip", "domain"}
TFKinds == {"ip", "ip:port", "url", "domain", "md5", "sha1", "sha256", "unknown"}

\* C10: detect_type is total: for every input string, the empty string and
\* malformed strings included, it returns one of the defined kinds and does
\* not raise.
C10_Total ==
    /\ "vt_detect" \in done => vt_type \in VTKinds
    /\ "tf_detect" \in done => tf_type \in TFKinds

\* Both detectors have returned a kind for the empty string.
C10_Witness ==
    /\ done = {"vt_detect", "tf_detect"}
    /\ ioc_value = ""
    /\ vt_type \in VTKinds
    /\ tf_type \in TFKinds

(***************************************************************************)
(* Properties of the domain filter, the matcher order and blank texts.     *)
(***************************************************************************)
AllowListTlds == {".com", ".org", ".net", ".local", ".internal"}
SuspectWords == {"suspicious", "malicious", "bad"}

HasSuspectWord(d) == \E w \in SuspectWords : Contains(Lower(d), w)

\* the domains matched in the scanned text
DomainMatches == Range(FindAll("domain", text))

\* the values that _extract_iocs_from_alert returned as domains
AlertDomains == {unique_iocs[i].value : i \in {k \in 1..Len(unique_iocs) : unique_iocs[k].type = "domain"}}

\* C11: a matched domain whose TLD is in the allow-list (.com, .org, .net,
\* .local, .internal) and that contains none of "suspicious", "malicious",
\* "bad" never appears in the extraction result.
C11_BenignDomainDropped ==
    \A d \in DomainMatches :
        (EndsWithAny(d, AllowListTlds) /\ ~HasSuspectWord(d)) =>
            /\ "extract_alert" \in done => d \notin AlertDomains
            /\ "extract_text" \in done => d \notin Range(cleaned_iocs)

\* C12: a matched domain is kept (up to deduplication and the cap) whenever its
\* TLD is outside the allow-list or it contains "suspicious", "malicious" or
\* "bad" in any letter case.
C12_SuspectDomainKept ==
    \A d \in DomainMatches :
        (~EndsWithAny(d, AllowListTlds) \/ HasSuspectWord(d)) =>
            /\ ("extract_alert" \in done /\ Len(unique_iocs) < max_iocs_per_analysis)
                  => d \in AlertDomains
            /\ "extract_text" \in done => d \in Range(cleaned_iocs)

Patterns == {"ip", "domain", "url", "md5", "sha1", "sha256"}

\* position of a kind in the matcher order that C13 states: hash, URL, IP, domain
ClaimedRank(kind) ==
    CASE kind \in {"md5", "sha1", "sha256"} -> 1
      [] kind = "url" -> 2
      [] kind = "ip" -> 3
      [] kind = "domain" -> 4

\* position of a kind in the order ip, domain, url, md5, sha1, sha256
PassRank(kind) ==
    CASE kind = "ip" -> 1
      [] kind = "domain" -> 2
      [] kind = "url" -> 3
      [] kind = "md5" -> 4
      [] kind = "sha1" -> 5
      [] kind = "sha256" -> 6

\* the kinds under which a value is matched in the scanned text
KindsOf(v) == {p \in Patterns : v \in Range(FindAll(p, text))}

\* the kinds of the returned indicators, in the order of the result
AlertKinds == [i \in 1..Len(unique_iocs) |-> unique_iocs[i].type]
TextKinds ==
    [i \in 1..Len(cleaned_iocs) |->
        CHOOSE p \in KindsOf(cleaned_iocs[i]) :
            \A q \in KindsOf(cleaned_iocs[i]) : PassRank(p) <= PassRank(q)]

OrderedBy(kinds, Rank(_)) ==
    \A i, j \in 1..Len(kinds) : i < j => Rank(kinds[i]) <= Rank(kinds[j])

OneKindPerValue ==
    \A i, j \in 1..Len(unique_iocs) :
        unique_iocs[i].value = unique_iocs[j].value => i = j

\* C13 as stated: the matchers run in the order hash, URL, IP, domain, and a
\* value appears once, under the kind of highest precedence.
C13_MatcherPrecedence ==
    /\ "extract_alert" \in done => OrderedBy(AlertKinds, ClaimedRank) /\ OneKindPerValue
    /\ "extract_text" \in done => OrderedBy(TextKinds, ClaimedRank)

\* C13 amended: the matchers run in the order IP, domain, URL, MD5, SHA1,
\* SHA256 and the result lists the indicators in that order; a value appears
\* once.
C13_MatcherOrder ==
    /\ "extract_alert" \in done => OrderedBy(AlertKinds, PassRank) /\ OneKindPerValue
    /\ "extract_text" \in done =>
          OrderedBy(TextKinds, PassRank) /\ NoDuplicates(cleaned_iocs)

\* Both extractors have returned an IP, a domain, a URL and a hash.
C13_Witness ==
    /\ done = {"extract_alert", "extract_text"}
    /\ {"ip", "domain", "url"} \subseteq Range(AlertKinds)
    /\ {"ip", "domain", "url"} \subseteq Range(TextKinds)

ValuesAndKinds == [i \in 1..Len(unique_iocs) |-> <<unique_iocs[i].value, unique_iocs[i].type>>]

\* C14 as stated: the scenario text gives exactly the domain, the ip and the
\* md5, in the left-to-right order of the text.
C14_ScenarioTextOrder ==
    text = ScenarioText =>
        /\ ("extract_alert" \in done /\ max_iocs_per_analysis >= 3) =>
              ValuesAndKinds = << <<"suspicious-c2.com", "domain">>,
                                  <<"203.0.113.5", "ip">>,
                                  <<Md5Token, "md5">> >>
        /\ "extract_text" \in done =>
              cleaned_iocs = <<"suspicious-c2.com", "203.0.113.5", Md5Token>>

\* C14 amended: the scenario text gives exactly three indicators, the ip, the
\* domain and the md5, in that order (the order of the matcher passes).
C14_ScenarioPassOrder ==
    text = ScenarioText =>
        /\ ("extract_alert" \in done /\ max_iocs_per_analysis >= 3) =>
              ValuesAndKinds = << <<"203.0.113.5", "ip">>,
                                  <<"suspicious-c2.com", "domain">>,
                                  <<Md5Token, "md5">> >>
        /\ "extract_text" \in done =>
              cleaned_iocs = <<"203.0.113.5", "suspicious-c2.com", Md5Token>>

\* Both extractors have scanned the scenario text, with a cap of three.
C14_Witness ==
    /\ text = ScenarioText
    /\ done = {"extract_alert", "extract_text"}
    /\ max_iocs_per_analysis = 3
    /\ Len(unique_iocs) = 3
    /\ Len(cleaned_iocs) = 3

\* C16: the extraction of the empty text, or of a text of whitespace only,
\* returns the empty sequence.
C16_BlankTextEmpty ==
    AllIn(text, Whitespace) =>
        /\ "extract_alert" \in done => unique_iocs = <<>>
        /\ "extract_text" \in done => cleaned_iocs = <<>>

\* Both extractors have scanned a non-empty text of whitespace.
C16_Witness ==
    /\ done = {"extract_alert", "extract_text"}
    /\ text /= ""
    /\ AllIn(text, Whitespace)
    /\ unique_iocs = <<>>
    /\ cleaned_iocs = <<>>

(***************************************************************************)
(* Properties of the recommendations.                                      *)
(***************************************************************************)
\* s.split(sep), computed from the positions of the separator
SplitAt(s, sep) ==
    LET P == {i \in 1..Len(s) : Ch(s, i) = sep}
        n == Cardinality(P)
        pos(k) == CHOOSE i \in P : Cardinality({j \in P : j < i}) = k - 1
    IN  [k \in 1..(n + 1) |->
            SubSeq(s, IF k = 1 THEN 1 ELSE pos(k - 1) + 1,
                      IF k = n + 1 THEN Len(s) ELSE pos(k) - 1)]

\* the lines of the returned text
ActionLines == SplitAt(recommendations, "\n")

IsActionLine(l) == StartsWith(l, "- ") /\ Len(l) > 2

\* C17: for every level of {Clean, Low, Medium, High, Critical, Unknown} the
\* recommendations are a non-empty list of 3 to 5 actions, and they depend on
\* the level only (the analysis does not change them).
C17_FixedActions ==
    ("recommend" \in done /\ threat_level \in ThreatLevels) =>
        /\ Len(ActionLines) \in 3..5
        /\ \A i \in 1..Len(ActionLines) : IsActionLine(ActionLines[i])
        /\ \A a \in RecAnalyses :
              recommendations = generate_recommendations(a, threat_level)

\* The recommendations of level Clean have been returned for an analysis with
\* malicious detections.
C17_Witness ==
    /\ "recommend" \in done
    /\ threat_level = "Clean"
    /\ Get(analysis, "malicious", 0) > 0
    /\ Len(ActionLines) = 3

UnknownRecommendations ==
    "- Gather additional intelligence\n"
    \o "- Submit for further analysis if suspicious\n"
    \o "- Monitor for future activity"

\* C18: a level outside the defined ones gets exactly the Unknown actions, and
\* the lookup does not raise.
C18_OtherLevelIsUnknown ==
    ("recommend" \in done /\ threat_level \notin ThreatLevels) =>
        recommendations = UnknownRecommendations

\* The recommendations of the lower-case level critical have been returned.
C18_Witness ==
    /\ "recommend" \in done
    /\ threat_level = "critical"
    /\ recommendations = UnknownRecommendations

(***************************************************************************)
(* Properties of the offline mode.                                         *)
(***************************************************************************)
\* C20: in offline mode no client sends a request or sleeps for the rate
\* limit; the VirusTotal analysis is the mock analysis of the indicator and
\* every ThreatFox result is the offline_mode placeholder.
C20_OfflineNoLookup ==
    /\ \A i \in 1..Len(http_log) : ~offline_mode[http_log[i].client]
    /\ (offline_mode["virustotal"] /\ "analyze_ioc" \in done
            /\ vt_type \in {"hash", "url", "ip", "domain"}) =>
          /\ vt_analysis = MockAnalysis(vt_type, ioc_value)
          /\ vt_analysis.total_engines = 70
    /\ offline_mode["threatfox"] =>
          \A i \in 1..Len(tf_results) :
              tf_results[i].ioc_result = [query_status |-> "offline_mode", data |-> <<>>]

\* Both tools have run offline with API keys configured: an analysis and two
\* searches, and nothing was sent.
C20_Witness ==
    /\ offline_mode = [c \in Clients |-> TRUE]
    /\ api_key = [c \in Clients |-> "key"]
    /\ "analyze_ioc" \in done
    /\ vt_type \in {"hash", "url", "ip", "domain"}
    /\ Len(tf_results) >= 2
    /\ tf_queue = <<>>
    /\ http_log = <<>>

(***************************************************************************)
(* Properties of concurrent invocations.                                   *)
(***************************************************************************)
\* the result of a call that runs alone
Alone(frame) ==
    IF frame.tool = "hunt_threats"
    THEN Range(ParseIocList(frame.ioc_list))
             \cup Range(extract_iocs_from_text(frame.incident_data))
    ELSE LET kind == VT_detect_ioc_type(frame.ioc_value)
             mock == MockAnalysis(kind, frame.ioc_value)
             level == assess_threat_level(mock)
         IN  [analysis |-> mock, threat_level |-> level,
              recommendations |-> generate_recommendations(mock, level)]

\* C19: whatever the interleaving of the invocations, each one returns the
\* result it returns when it runs alone.
C19_CallsIndependent ==
    \A c \in Callers :
        frames[c].pc = "returned" => frames[c].result = Alone(frames[c])

\* Two hunts over different texts that share an indicator have both returned.
C19_Witness ==
    /\ \A c \in {1, 2} :
          /\ frames[c].tool = "hunt_threats"
          /\ frames[c].pc = "returned"
          /\ "evil.xyz" \in frames[c].result
    /\ frames[1].incident_data /= frames[2].incident_data

(***************************************************************************)
(* Properties of the VirusTotal rate limit and of the report note.         *)
(***************************************************************************)
\* the requests that the VirusTotal clients have sent
VTRequests ==
    {i \in 1..Len(http_log) :
        http_log[i].client = "virustotal" /\ http_log[i].event = "GET"}

\* C21: any two requests sent to VirusTotal are at least 60 / rate_limit
\* seconds apart, over all the calls of the tool.
C21_RequestsSpaced ==
    \A i, j \in VTRequests :
        i < j => http_log[j].at - http_log[i].at >= 60 \div rate_limit

\* C25: a VirusTotal report whose figures are the mock analysis carries the
\* note on simulated data.
C25_MockReportHasNote ==
    ("analyze_ioc" \in done
        /\ vt_type \in {"hash", "url", "ip", "domain"}
        /\ vt_analysis = MockAnalysis(vt_type, ioc_value)) =>
            simulated_note = TRUE

(***************************************************************************)
(* Properties of the query loop of hunt_threats.                           *)
(***************************************************************************)
Queried == Min2(Len(all_iocs), 10)

\* the requests that the ThreatFox client has sent
TFRequests ==
    {i \in 1..Len(http_log) :
        http_log[i].client = "threatfox" /\ http_log[i].event = "POST"}

\* C22: hunt_threats searches the first 10 indicators at most and records one
\* ioc_analysis entry and one raw_api_responses entry for each of them, so the
\* two lists have the same length, whatever the query status.
C22_OneEntryPerQuery ==
    "hunt_queries" \in done =>
        /\ Len(threat_intelligence.ioc_analysis) = Queried
        /\ Len(threat_intelligence.raw_api_responses) = Queried
        /\ \A i \in 1..Queried :
              /\ threat_intelligence.ioc_analysis[i].ioc = all_iocs[i]
              /\ threat_intelligence.raw_api_responses[i].ioc = all_iocs[i]
        /\ Cardinality(TFRequests) <= 10

\* An online hunt over more than 10 indicators has ended, with answers of
\* every status.
C22_Witness ==
    /\ "hunt_queries" \in done
    /\ Len(all_iocs) > 10
    /\ ~offline_mode["threatfox"]
    /\ Cardinality(TFRequests) = 10
    /\ {"ok", "no_result", "error", "unknown"} \subseteq
          {threat_intelligence.raw_api_responses[i].response_status :
              i \in 1..Len(threat_intelligence.raw_api_responses)}

(***************************************************************************)
(* Properties of coordinate_orchestration_analysis.                        *)
(***************************************************************************)
TimelineSteps ==
    [i \in 1..Len(orchestration_results.execution_timeline) |->
        orchestration_results.execution_timeline[i].step]

HashKinds == {"md5", "sha1", "sha256"}

\* the detector results that correspond to a kind of the extractor
CorrespondingTypes(kind) == IF kind \in HashKinds THEN {"hash", kind} ELSE {kind}

DetectorsAgree(ioc) ==
    /\ VT_detect_ioc_type(ioc.value) \in CorrespondingTypes(ioc.type)
    /\ TF_detect_ioc_type(ioc.value) \in CorrespondingTypes(ioc.type)

\* C27: for every indicator the extractor returns with kind ip, url, domain,
\* md5, sha1 or sha256, each type detector applied to its value returns the
\* corresponding type (ip, url, domain, or a hash kind).
C27_ExtractorDetectorAgree ==
    "extract_alert" \in done =>
        \A i \in 1..Len(unique_iocs) :
            unique_iocs[i].type \in {"ip", "url", "domain"} \cup HashKinds
                => DetectorsAgree(unique_iocs[i])

(***************************************************************************)
(* Properties of the mock analyses.                                        *)
(***************************************************************************)
\* C26: every mock analysis (file, URL, IP, domain) is a well-formed detection
\* result for every input string: malicious, suspicious, undetected and
\* harmless are all >= 0 and sum to total_engines.
C26_MockWellFormed ==
    "mock" \in done =>
        /\ vt_analysis.malicious >= 0
        /\ vt_analysis.suspicious >= 0
        /\ vt_analysis.undetected >= 0
        /\ vt_analysis.harmless >= 0
        /\ vt_analysis.malicious + vt_analysis.suspicious
             + vt_analysis.undetected + vt_analysis.harmless
           = vt_analysis.total_engines

(***************************************************************************)
(* Properties of test_ai_connectivity.                                     *)
(***************************************************************************)
Invocations == Len(hello.outcomes)

RetryBounded ==
    ~hello_config.offline_mode =>
        /\ Invocations <= hello_config.max_retries
        /\ \A i \in 1..Invocations :
              hello.outcomes[i] = "ok" => (i = Invocations /\ hello.pc = "returned")
        /\ (hello.pc = "returned"
               /\ (Invocations = 0 \/ hello.outcomes[Invocations] /= "ok"))
           => /\ hello.result.kind = "failed"
              /\ Invocations = hello_config.max_retries
        /\ hello.pc /= "raised"

\* C24: online, test_ai_connectivity invokes the agent at most max_retries
\* times, stops at the first successful attempt, and after max_retries failed
\* attempts (max_retries = 0 included) returns a failure message: it neither
\* raises nor retries forever.
C24_RetryTerminates == []RetryBounded /\ <>(hello.pc = "returned")

\* Every one of three allowed attempts has failed and the failure message has
\* been returned.
C24_Witness ==
    /\ ~hello_config.offline_mode
    /\ hello_config.max_retries = 3
    /\ hello.pc = "returned"
    /\ hello.result.kind = "failed"
    /\ Invocations = 3
    /\ hello.sleeps = 2

(***************************************************************************)
(* Properties of generate_takedown_procedures.                             *)
(***************************************************************************)
\* C29: generate_takedown_procedures never raises: for every input (malformed
\* JSON, JSON that is not an object, missing fields, unknown takedown_type) it
\* returns a document whose status is completed or failed, and a failed
\* document carries the error, its error_type and the requested takedown_type.
C29_AlwaysADocument ==
    "takedown" \in done =>
        /\ takedown_results.status \in {"completed", "failed"}
        /\ takedown_results.status = "failed" =>
              /\ {"error", "error_type", "takedown_type"} \subseteq DOMAIN takedown_results
              /\ takedown_results.error /= ""
              /\ takedown_results.error_type
                    \in {"JSONDecodeError", "AttributeError", "TypeError"}
              /\ takedown_results.takedown_type = takedown_type

\* A truncated JSON text has been answered with a failed document for the
\* requested takedown type.
C29_Witness ==
    /\ "takedown" \in done
    /\ orchestration_data = "{\"threat_assessment\": "
    /\ takedown_type = "full_containment"
    /\ takedown_results.status = "failed"
    /\ takedown_results.error_type = "JSONDecodeError"

\* C30: in every completed takedown result, for every threat level and every
\* configuration, ready_for_automation and manual_approval_required are never
\* both true.
C30_ApprovalExcludesAutomation ==
    ("takedown" \in done /\ takedown_results.status = "completed") =>
        ~(/\ takedown_results.automation_readiness.ready_for_automation
          /\ takedown_results.safety_recommendations.manual_approval_required)

====
